---------------------------- MODULE Spec2Model ----------------------------
(***************************************************************************)
(* A model of the pharma intake backend: the questionnaire definition and  *)
(* its stateless engine (backend/app/api/survey.py), the stateful run      *)
(* service (backend/app/routes/runs.py), the in-memory run store           *)
(* (backend/app/services/storage.py) and the case event service            *)
(* (backend/app/services/case_events.py).                                  *)
(*                                                                         *)
(* Conventions.                                                            *)
(*  - A Python Optional[T] is a set holding at most one T: None is {} and  *)
(*    a present value x is {x}.                                            *)
(*  - A text the code inspects character by character (an answer, a scale  *)
(*    label) is a sequence of one-character strings; strip(), re.fullmatch *)
(*    and re.match are computed on it.                                     *)
(*  - A `next` token is the sequence of its ':'-separated segments, so     *)
(*    "q2" is <<"q2">> and "GOTO:ae_selector:q1" is                        *)
(*    <<"GOTO", "ae_selector", "q1">>.                                     *)
(*  - A response is a record: kind "ok" (done, next, summary) or kind      *)
(*    "error" (status, code).  An exception no handler catches (KeyError,  *)
(*    TypeError, ValueError) is an error whose code is the exception name. *)
(***************************************************************************)
EXTENDS Integers, Sequences, FiniteSets, TLC

None == {}

Some(x) == {x}

The(o) == CHOOSE x \in o : TRUE

(***************************************************************************)
(* SURVEY_DEFINITION, survey.py lines 20-537, section by section.          *)
(***************************************************************************)
MinCriteriaQuestions ==
    ("q1" :>
       [id |-> "q1",
        text |-> "Who is reporting this information?",
        type |-> "single_choice",
        options |->
            ("a" :> [label |-> "I am a healthcare professional (HCP)", next |-> Some(<<"q2">>)]) @@
            ("b" :> [label |-> "I am not a healthcare professional (consumer)", next |-> Some(<<"q2">>)]) @@
            ("c" :> [label |-> "This is from a published article (literature)", next |-> Some(<<"q2">>)]) @@
            ("d" :> [label |-> "This is from a partner organization", next |-> Some(<<"q2">>)]) @@
            ("e" :> [label |-> "This is from a study", next |-> Some(<<"q2">>)]),
        next |-> None,
        hints |-> None,
        required |-> Some(TRUE),
        pattern |-> None]) @@
    ("q2" :>
       [id |-> "q2",
        text |-> "Can we contact you for follow-up if needed?",
        type |-> "single_choice",
        options |->
            ("a" :> [label |-> "Yes", next |-> Some(<<"q2a">>)]) @@
            ("b" :> [label |-> "No", next |-> Some(<<"q3">>)]),
        next |-> None,
        hints |-> None,
        required |-> Some(TRUE),
        pattern |-> None]) @@
    ("q2a" :>
       [id |-> "q2a",
        text |-> "What is the best way to contact you?",
        type |-> "single_choice",
        options |->
            ("a" :> [label |-> "Email", next |-> Some(<<"q2a_email">>)]) @@
            ("b" :> [label |-> "Phone", next |-> Some(<<"q2a_phone">>)]) @@
            ("c" :> [label |-> "Other", next |-> Some(<<"q2a_other">>)]),
        next |-> None,
        hints |-> None,
        required |-> Some(TRUE),
        pattern |-> None]) @@
    ("q2a_email" :>
       [id |-> "q2a_email",
        text |-> "Enter your email address",
        type |-> "free_text",
        options |-> <<>>,
        next |-> Some(<<"q3">>),
        hints |-> Some("name@example.com"),
        required |-> Some(TRUE),
        pattern |-> None]) @@
    ("q2a_phone" :>
       [id |-> "q2a_phone",
        text |-> "Enter your phone number",
        type |-> "free_text",
        options |-> <<>>,
        next |-> Some(<<"q3">>),
        hints |-> Some("e.g., +1 555 555 5555"),
        required |-> Some(TRUE),
        pattern |-> None]) @@
    ("q2a_other" :>
       [id |-> "q2a_other",
        text |-> "Enter the best way to contact you",
        type |-> "free_text",
        options |-> <<>>,
        next |-> Some(<<"q3">>),
        hints |-> Some("e.g., secure portal message"),
        required |-> Some(TRUE),
        pattern |-> None]) @@
    ("q3" :>
       [id |-> "q3",
        text |-> "Are you the person who experienced the event?",
        type |-> "single_choice",
        options |->
            ("a" :> [label |-> "Yes (I am the patient)", next |-> Some(<<"q4">>)]) @@
            ("b" :> [label |-> "No (I am reporting for someone else)", next |-> Some(<<"q3a">>)]),
        next |-> None,
        hints |-> None,
        required |-> Some(TRUE),
        pattern |-> None]) @@
    ("q3a" :>
       [id |-> "q3a",
        text |-> "What is your relationship to the patient?",
        type |-> "single_choice",
        options |->
            ("a" :> [label |-> "Parent/Guardian", next |-> Some(<<"q4">>)]) @@
            ("b" :> [label |-> "Spouse/Partner", next |-> Some(<<"q4">>)]) @@
            ("c" :> [label |-> "Family member", next |-> Some(<<"q4">>)]) @@
            ("d" :> [label |-> "Caregiver", next |-> Some(<<"q4">>)]) @@
            ("e" :> [label |-> "Friend/Other", next |-> Some(<<"q3a_other">>)]),
        next |-> None,
        hints |-> None,
        required |-> Some(TRUE),
        pattern |-> None]) @@
    ("q3a_other" :>
       [id |-> "q3a_other",
        text |-> "Describe your relationship to the patient",
        type |-> "free_text",
        options |-> <<>>,
        next |-> Some(<<"q4">>),
        hints |-> Some("e.g., roommate, coach, etc."),
        required |-> Some(TRUE),
        pattern |-> None]) @@
    ("q4" :>
       [id |-> "q4",
        text |-> "Please provide at least one detail about the person who experienced the event.",
        type |-> "single_choice",
        options |->
            ("a" :> [label |-> "Age", next |-> Some(<<"q4a">>)]) @@
            ("b" :> [label |-> "Sex", next |-> Some(<<"q4b">>)]) @@
            ("c" :> [label |-> "Initials (optional identifier)", next |-> Some(<<"q4c">>)]) @@
            ("d" :> [label |-> "I don't know any of these", next |-> Some(<<"q4_missing">>)]),
        next |-> None,
        hints |-> None,
        required |-> Some(TRUE),
        pattern |-> None]) @@
    ("q4a" :>
       [id |-> "q4a",
        text |-> "Enter the patient's age (number only)",
        type |-> "free_text",
        options |-> <<>>,
        next |-> Some(<<"q4a_unit">>),
        hints |-> Some("e.g., 34"),
        required |-> Some(TRUE),
        pattern |-> None]) @@
    ("q4a_unit" :>
       [id |-> "q4a_unit",
        text |-> "Select the age unit",
        type |-> "single_choice",
        options |->
            ("a" :> [label |-> "Years", next |-> Some(<<"q5">>)]) @@
            ("b" :> [label |-> "Months", next |-> Some(<<"q5">>)]) @@
            ("c" :> [label |-> "Days", next |-> Some(<<"q5">>)]) @@
            ("d" :> [label |-> "Unknown", next |-> Some(<<"q5">>)]),
        next |-> None,
        hints |-> None,
        required |-> Some(TRUE),
        pattern |-> None]) @@
    ("q4b" :>
       [id |-> "q4b",
        text |-> "Select the patient's sex",
        type |-> "single_choice",
        options |->
            ("a" :> [label |-> "Male", next |-> Some(<<"q5">>)]) @@
            ("b" :> [label |-> "Female", next |-> Some(<<"q5">>)]) @@
            ("c" :> [label |-> "Other", next |-> Some(<<"q5">>)]) @@
            ("d" :> [label |-> "Unknown", next |-> Some(<<"q5">>)]),
        next |-> None,
        hints |-> None,
        required |-> Some(TRUE),
        pattern |-> None]) @@
    ("q4c" :>
       [id |-> "q4c",
        text |-> "Enter the patient's initials",
        type |-> "free_text",
        options |-> <<>>,
        next |-> Some(<<"q5">>),
        hints |-> Some("e.g., J.D."),
        required |-> Some(TRUE),
        pattern |-> None]) @@
    ("q4_missing" :>
       [id |-> "q4_missing",
        text |-> "Understood. Without at least one patient detail (age, sex, or initials), the report may be incomplete. Would you like to proceed anyway?",
        type |-> "single_choice",
        options |->
            ("a" :> [label |-> "Yes, proceed", next |-> Some(<<"q5">>)]) @@
            ("b" :> [label |-> "No, go back", next |-> Some(<<"q4">>)]),
        next |-> None,
        hints |-> None,
        required |-> Some(TRUE),
        pattern |-> None]) @@
    ("q5" :>
       [id |-> "q5",
        text |-> "What product do you believe is related to the event?",
        type |-> "free_text",
        options |-> <<>>,
        next |-> Some(<<"q6">>),
        hints |-> Some("e.g., medication/vaccine name"),
        required |-> Some(TRUE),
        pattern |-> None]) @@
    ("q6" :>
       [id |-> "q6",
        text |-> "What happened?",
        type |-> "free_text",
        options |-> <<>>,
        next |-> Some(<<"GOTO", "ae_selector", "q1">>),
        hints |-> Some("Describe the symptoms or event in your own words"),
        required |-> Some(TRUE),
        pattern |-> None])

AeSelector ==
    ("q1" :>
       [id |-> "q1",
        text |-> "Which symptom category best matches?",
        type |-> "single_choice",
        options |->
            ("a" :> [label |-> "Abdominal / GI", next |-> Some(<<"GOTO", "abdominal_questions", "q1">>)]) @@
            ("b" :> [label |-> "Headache / Neuro", next |-> Some(<<"GOTO", "headache_questions", "q1">>)]) @@
            ("c" :> [label |-> "Vomiting", next |-> Some(<<"GOTO", "vomiting_questions", "q1">>)]),
        next |-> None,
        hints |-> None,
        required |-> None,
        pattern |-> None])

AbdominalQuestions ==
    ("q1" :>
       [id |-> "q1",
        text |-> "When did this symptom start?",
        type |-> "single_choice",
        options |->
            ("a" :> [label |-> "Exact date, if known", next |-> Some(<<"q1a">>)]) @@
            ("b" :> [label |-> "Approximate date", next |-> Some(<<"q1b">>)]),
        next |-> None,
        hints |-> None,
        required |-> None,
        pattern |-> None]) @@
    ("q1a" :>
       [id |-> "q1a",
        text |-> "Enter the exact date (YYYY-MM-DD)",
        type |-> "free_text",
        options |-> <<>>,
        next |-> Some(<<"q2">>),
        hints |-> Some("YYYY-MM-DD"),
        required |-> Some(TRUE),
        pattern |-> None]) @@
    ("q1b" :>
       [id |-> "q1b",
        text |-> "Enter an approximate date (e.g., 'about 2 weeks ago')",
        type |-> "free_text",
        options |-> <<>>,
        next |-> Some(<<"q2">>),
        hints |-> Some("e.g., about 2 weeks ago"),
        required |-> Some(TRUE),
        pattern |-> None]) @@
    ("q2" :>
       [id |-> "q2",
        text |-> "Do you still have pain?",
        type |-> "single_choice",
        options |->
            ("a" :> [label |-> "Yes. Go to #4.", next |-> Some(<<"q4">>)]) @@
            ("b" :> [label |-> "No.", next |-> Some(<<"q3">>)]),
        next |-> None,
        hints |-> None,
        required |-> None,
        pattern |-> None]) @@
    ("q3" :>
       [id |-> "q3",
        text |-> "When did the symptom stop?",
        type |-> "single_choice",
        options |->
            ("a" :> [label |-> "Exact date, if known", next |-> Some(<<"q4">>)]) @@
            ("b" :> [label |-> "Approximate date", next |-> Some(<<"q3b">>)]),
        next |-> None,
        hints |-> None,
        required |-> None,
        pattern |-> None]) @@
    ("q3a" :>
       [id |-> "q3a",
        text |-> "Enter the exact date (YYYY-MM-DD)",
        type |-> "free_text",
        options |-> <<>>,
        next |-> Some(<<"q4">>),
        hints |-> Some("YYYY-MM-DD"),
        required |-> Some(TRUE),
        pattern |-> None]) @@
    ("q3b" :>
       [id |-> "q3b",
        text |-> "Enter an approximate date the symptoms stopped (e.g., 'about 2 weeks ago')",
        type |-> "free_text",
        options |-> <<>>,
        next |-> Some(<<"q4">>),
        hints |-> Some("e.g., about 2 weeks ago"),
        required |-> Some(TRUE),
        pattern |-> None]) @@
    ("q4" :>
       [id |-> "q4",
        text |-> "Is (was) the pain:",
        type |-> "single_choice",
        options |->
            ("a" :> [label |-> "Sharp?", next |-> Some(<<"q5">>)]) @@
            ("b" :> [label |-> "Dull?", next |-> Some(<<"q5">>)]) @@
            ("c" :> [label |-> "Throbbing?", next |-> Some(<<"q5">>)]) @@
            ("d" :> [label |-> "Burning?", next |-> Some(<<"q5">>)]) @@
            ("e" :> [label |-> "Cramping?", next |-> Some(<<"q5">>)]),
        next |-> None,
        hints |-> None,
        required |-> None,
        pattern |-> None]) @@
    ("q5" :>
       [id |-> "q5",
        text |-> "How would you grade the intensity of the pain? (Refer to visual analog pain scale)",
        type |-> "scale",
        options |->
            ("a" :> [label |-> "2 - Hurts Little Bit", next |-> Some(<<"q6">>)]) @@
            ("b" :> [label |-> "4 - Hurts Little More", next |-> Some(<<"q6">>)]) @@
            ("c" :> [label |-> "6 - Hurts Even More", next |-> Some(<<"q6">>)]) @@
            ("d" :> [label |-> "8 - Hurts Whole Lot", next |-> Some(<<"q6">>)]) @@
            ("e" :> [label |-> "10 - Hurts Worst", next |-> Some(<<"q6">>)]),
        next |-> None,
        hints |-> None,
        required |-> None,
        pattern |-> None]) @@
    ("q6" :>
       [id |-> "q6",
        text |-> "Does (did) the symptom disrupt your sleep?",
        type |-> "single_choice",
        options |->
            ("a" :> [label |-> "Yes.", next |-> Some(<<"q7">>)]) @@
            ("b" :> [label |-> "No.", next |-> Some(<<"q7">>)]) @@
            ("c" :> [label |-> "N/A. I did not have pain during sleep.", next |-> Some(<<"q7">>)]),
        next |-> None,
        hints |-> None,
        required |-> None,
        pattern |-> None]) @@
    ("q7" :>
       [id |-> "q7",
        text |-> "Is (was) the abdominal pain localized or generalized?",
        type |-> "single_choice",
        options |->
            ("a" :> [label |-> "Localized. (Confined to one specific area of the body)", next |-> Some(<<"q8">>)]) @@
            ("b" :> [label |-> "Generalized. (Affect the entire body or a large region of it)", next |-> Some(<<"q9">>)]),
        next |-> None,
        hints |-> None,
        required |-> None,
        pattern |-> None]) @@
    ("q8" :>
       [id |-> "q8",
        text |-> "Where in the abdomen is (was) the pain mainly located? (Refer to figure 1.)",
        type |-> "single_choice",
        options |->
            ("a" :> [label |-> "Upper right side (RUQ)", next |-> Some(<<"q9">>)]) @@
            ("b" :> [label |-> "Lower right side (RLQ)", next |-> Some(<<"q9">>)]) @@
            ("c" :> [label |-> "Upper left side (LUQ)", next |-> Some(<<"q9">>)]) @@
            ("d" :> [label |-> "Lower left side (LLQ)", next |-> Some(<<"q9">>)]) @@
            ("e" :> [label |-> "Upper central (epigastric)", next |-> Some(<<"q9">>)]) @@
            ("f" :> [label |-> "Middle central (periumbilical)", next |-> Some(<<"q9">>)]) @@
            ("g" :> [label |-> "Lower central (suprapubic)", next |-> Some(<<"q9">>)]),
        next |-> None,
        hints |-> None,
        required |-> None,
        pattern |-> None]) @@
    ("q9" :>
       [id |-> "q9",
        text |-> "Does (did) the pain radiate?",
        type |-> "single_choice",
        options |->
            ("a" :> [label |-> "Yes.", next |-> Some(<<"q10">>)]) @@
            ("b" :> [label |-> "No. Go to #11.", next |-> Some(<<"q11">>)]),
        next |-> None,
        hints |-> None,
        required |-> None,
        pattern |-> None]) @@
    ("q10" :>
       [id |-> "q10",
        text |-> "Where does (did) the pain radiate? (Refer to figure 1.)",
        type |-> "free_text",
        options |-> <<>>,
        next |-> Some(<<"q11">>),
        hints |-> Some("e.g., back, shoulder, groin"),
        required |-> Some(TRUE),
        pattern |-> None]) @@
    ("q11" :>
       [id |-> "q11",
        text |-> "If you are still having this symptom, is it:",
        type |-> "single_choice",
        options |->
            ("a" :> [label |-> "Worsening?", next |-> Some(<<"q12">>)]) @@
            ("b" :> [label |-> "Stable?", next |-> Some(<<"q12">>)]) @@
            ("c" :> [label |-> "Improving?", next |-> Some(<<"q12">>)]) @@
            ("d" :> [label |-> "Unsure.", next |-> Some(<<"q12">>)]) @@
            ("e" :> [label |-> "No longer having pain.", next |-> Some(<<"q12">>)]),
        next |-> None,
        hints |-> None,
        required |-> None,
        pattern |-> None]) @@
    ("q12" :>
       [id |-> "q12",
        text |-> "The symptom",
        type |-> "single_choice",
        options |->
            ("a" :> [label |-> "Has not affected my daily routine at all.", next |-> Some(<<"q13">>)]) @@
            ("b" :> [label |-> "Has caused me to cancel some of my daily routine.", next |-> Some(<<"q13">>)]) @@
            ("c" :> [label |-> "Has caused me to cancel all of my daily routine.", next |-> Some(<<"q13">>)]),
        next |-> None,
        hints |-> None,
        required |-> None,
        pattern |-> None]) @@
    ("q13" :>
       [id |-> "q13",
        text |-> "Is (was) there any abdominal tenderness (area tender to touch)?",
        type |-> "single_choice",
        options |->
            ("a" :> [label |-> "Yes", next |-> Some(<<"q14">>)]) @@
            ("b" :> [label |-> "No", next |-> Some(<<"q14">>)]),
        next |-> None,
        hints |-> None,
        required |-> None,
        pattern |-> None]) @@
    ("q14" :>
       [id |-> "q14",
        text |-> "Have you had any recent trauma before the symptom began?",
        type |-> "single_choice",
        options |->
            ("a" :> [label |-> "Yes.", next |-> Some(<<"q15">>)]) @@
            ("b" :> [label |-> "No.", next |-> Some(<<"q15">>)]),
        next |-> None,
        hints |-> None,
        required |-> None,
        pattern |-> None]) @@
    ("q15" :>
       [id |-> "q15",
        text |-> "Is (was) the abdominal pain positional (better/worse in a position)?",
        type |-> "single_choice",
        options |->
            ("a" :> [label |-> "Yes.", next |-> Some(<<"q16">>)]) @@
            ("b" :> [label |-> "No.", next |-> Some(<<"q16">>)]),
        next |-> None,
        hints |-> None,
        required |-> None,
        pattern |-> None]) @@
    ("q16" :>
       [id |-> "q16",
        text |-> "Does (did) anything appear to lessen or improve the symptom?",
        type |-> "single_choice",
        options |->
            ("a" :> [label |-> "Yes. What?", next |-> Some(<<"q16a">>)]) @@
            ("b" :> [label |-> "No.", next |-> Some(<<"q17">>)]),
        next |-> None,
        hints |-> None,
        required |-> None,
        pattern |-> None]) @@
    ("q16a" :>
       [id |-> "q16a",
        text |-> "What improves the symptom?",
        type |-> "free_text",
        options |-> <<>>,
        next |-> Some(<<"q17">>),
        hints |-> Some("e.g., rest, heat, medication name"),
        required |-> Some(TRUE),
        pattern |-> None]) @@
    ("q17" :>
       [id |-> "q17",
        text |-> "Does (did) anything appear to worsen the symptom?",
        type |-> "single_choice",
        options |->
            ("a" :> [label |-> "Yes. What?", next |-> Some(<<"q17a">>)]) @@
            ("b" :> [label |-> "No.", next |-> Some(<<"q18">>)]),
        next |-> None,
        hints |-> None,
        required |-> None,
        pattern |-> None]) @@
    ("q17a" :>
       [id |-> "q17a",
        text |-> "What worsens the symptom?",
        type |-> "free_text",
        options |-> <<>>,
        next |-> Some(<<"q18">>),
        hints |-> Some("e.g., certain foods, movement"),
        required |-> Some(TRUE),
        pattern |-> None]) @@
    ("q18" :>
       [id |-> "q18",
        text |-> "Does (did) taking a deep breath worsen the abdominal pain?",
        type |-> "single_choice",
        options |->
            ("a" :> [label |-> "Yes.", next |-> Some(<<"q19">>)]) @@
            ("b" :> [label |-> "No.", next |-> Some(<<"q19">>)]),
        next |-> None,
        hints |-> None,
        required |-> None,
        pattern |-> None]) @@
    ("q19" :>
       [id |-> "q19",
        text |-> "Are you under any unusual stress?",
        type |-> "single_choice",
        options |->
            ("a" :> [label |-> "Yes. What?", next |-> Some(<<"q19a">>)]) @@
            ("b" :> [label |-> "No.", next |-> Some(<<"q20">>)]),
        next |-> None,
        hints |-> None,
        required |-> None,
        pattern |-> None]) @@
    ("q19a" :>
       [id |-> "q19a",
        text |-> "Describe the stress:",
        type |-> "free_text",
        options |-> <<>>,
        next |-> Some(<<"q20">>),
        hints |-> Some("brief description"),
        required |-> Some(TRUE),
        pattern |-> None]) @@
    ("q20" :>
       [id |-> "q20",
        text |-> "Did anything appear to cause this symptom?",
        type |-> "single_choice",
        options |->
            ("a" :> [label |-> "Yes. What?", next |-> Some(<<"q20a">>)]) @@
            ("b" :> [label |-> "No.", next |-> None]),
        next |-> None,
        hints |-> None,
        required |-> None,
        pattern |-> None]) @@
    ("q20a" :>
       [id |-> "q20a",
        text |-> "What do you think caused the symptom?",
        type |-> "free_text",
        options |-> <<>>,
        next |-> Some(<<"q21">>),
        hints |-> Some("brief description"),
        required |-> Some(TRUE),
        pattern |-> None])

HeadacheQuestions ==
    <<>>

SURVEY_DEFINITION ==
    ("min_criteria_questions" :> MinCriteriaQuestions) @@
    ("ae_selector" :> AeSelector) @@
    ("abdominal_questions" :> AbdominalQuestions) @@
    ("headache_questions" :> HeadacheQuestions)

Chars(label) ==
    CASE label = "10 - Hurts Worst" -> <<"1", "0", " ", "-", " ", "H", "u", "r", "t", "s", " ", "W", "o", "r", "s", "t">>
      [] label = "2 - Hurts Little Bit" -> <<"2", " ", "-", " ", "H", "u", "r", "t", "s", " ", "L", "i", "t", "t", "l", "e", " ", "B", "i", "t">>
      [] label = "4 - Hurts Little More" -> <<"4", " ", "-", " ", "H", "u", "r", "t", "s", " ", "L", "i", "t", "t", "l", "e", " ", "M", "o", "r", "e">>
      [] label = "6 - Hurts Even More" -> <<"6", " ", "-", " ", "H", "u", "r", "t", "s", " ", "E", "v", "e", "n", " ", "M", "o", "r", "e">>
      [] label = "8 - Hurts Whole Lot" -> <<"8", " ", "-", " ", "H", "u", "r", "t", "s", " ", "W", "h", "o", "l", "e", " ", "L", "o", "t">>
      [] OTHER -> <<>>

(***************************************************************************)
(* Texts as character sequences: str.strip(), re.fullmatch of the ISO date *)
(* pattern, and the scale-label parse.                                     *)
(***************************************************************************)
Digits == {"0", "1", "2", "3", "4", "5", "6", "7", "8", "9"}

Letters ==
    {"a", "b", "c", "d", "e", "f", "g", "h", "i", "j", "k", "l", "m",
     "n", "o", "p", "q", "r", "s", "t", "u", "v", "w", "x", "y", "z",
     "A", "B", "C", "D", "E", "F", "G", "H", "I", "J", "K", "L", "M",
     "N", "O", "P", "Q", "R", "S", "T", "U", "V", "W", "X", "Y", "Z"}

IsSpace(c) == c \in {" ", "\t", "\n"}

IsDigit(c) == c \in Digits

IsWord(c) == c \in Digits \cup Letters \cup {"_"}

SetMin(S) == CHOOSE x \in S : \A y \in S : x <= y

SetMax(S) == CHOOSE x \in S : \A y \in S : y <= x

\* str.strip(): the text between its first and last non-whitespace character.
Strip(s) ==
    LET solid == {i \in 1..Len(s) : ~IsSpace(s[i])}
    IN  IF solid = {} THEN <<>> ELSE SubSeq(s, SetMin(solid), SetMax(solid))

\* A date test that takes every text that is not empty.
NotEmpty(s) == s # <<>>

\* re.fullmatch(r"\d{4}-\d{2}-\d{2}", s) is not None
FullMatchIsoDate(s) ==
    /\ Len(s) = 10
    /\ \A i \in {1, 2, 3, 4, 6, 7, 9, 10} : IsDigit(s[i])
    /\ s[5] = "-"
    /\ s[8] = "-"

DigitVal(c) ==
    CASE c = "0" -> 0 [] c = "1" -> 1 [] c = "2" -> 2 [] c = "3" -> 3
      [] c = "4" -> 4 [] c = "5" -> 5 [] c = "6" -> 6 [] c = "7" -> 7
      [] c = "8" -> 8 [] c = "9" -> 9

RECURSIVE ToInt(_)
\* int() of a sequence of decimal digits
ToInt(ds) ==
    IF ds = <<>> THEN 0
    ELSE 10 * ToInt(SubSeq(ds, 1, Len(ds) - 1)) + DigitVal(ds[Len(ds)])

\* re.match(r"\s*(\d+)\b", s): leading whitespace, a maximal run of digits,
\* then a word boundary; int() of the digits, or None when there is no match.
MatchLeadingInt(s) ==
    LET n      == Len(s)
        first  == SetMin({i \in 1..(n + 1) : i = n + 1 \/ ~IsSpace(s[i])})
        stop   == SetMin({i \in first..(n + 1) : i = n + 1 \/ ~IsDigit(s[i])})
    IN  IF stop > first /\ (stop = n + 1 \/ ~IsWord(s[stop]))
        THEN Some(ToInt(SubSeq(s, first, stop - 1)))
        ELSE None

\* A parse that finds no number in any label.
NoScore(label) == None

_parse_scale(label) == MatchLeadingInt(Chars(label))

(***************************************************************************)
(* Responses.                                                              *)
(***************************************************************************)
\* raise HTTPException(status_code, detail={"error": {"code", "message"}}):
\* `detail` holds the values interpolated into the message.
HttpError(status, code, detail) ==
    [kind |-> "error", status |-> status, code |-> code, detail |-> detail]

\* An exception that no handler catches: the framework answers 500.
Unhandled(exc) ==
    [kind |-> "error", status |-> 500, code |-> exc, detail |-> <<>>]

\* The "next" object show_question builds from a node.
RenderNode(question) ==
    [id       |-> question.id,
     text     |-> question.text,
     type     |-> question.type,
     options  |-> [k \in DOMAIN question.options |-> question.options[k].label],
     hints    |-> question.hints,
     required |-> question.required]

show_question(question) ==
    [kind |-> "ok", done |-> FALSE, next |-> Some(RenderNode(question)),
     summary |-> None]

\* {"next": None, "done": True, ...}, with a summary where the caller adds one
Finished(summary) ==
    [kind |-> "ok", done |-> TRUE, next |-> None, summary |-> summary]

START_ID == "q1"

\* `token in qmap` for a next token: only a token without ':' can be a key.
InMap(token, qmap) == Len(token) = 1 /\ token[1] \in DOMAIN qmap

\* `answer in options` for an answer text: every option key is one character.
IsKey(ans, options) == Len(ans) = 1 /\ ans[1] \in DOMAIN options

(***************************************************************************)
(* _build_summary, survey.py lines 701-733.                                *)
(***************************************************************************)
ATTENTION_THRESHOLD == 8

\* An attention test that leaves the threshold itself out.
StrictlyAbove(pain_scale) ==
    pain_scale # None /\ The(pain_scale) > ATTENTION_THRESHOLD

requires_attention(pain_scale) ==
    pain_scale # None /\ The(pain_scale) >= ATTENTION_THRESHOLD

_build_summary(answers_by_id) ==
    LET has(q) == q \in DOMAIN answers_by_id
        pain_scale ==
            IF has("q5") /\ "score" \in DOMAIN answers_by_id["q5"]
            THEN answers_by_id["q5"].score ELSE None
    IN  [started_at_precision |->
             IF has("q1a") THEN Some("exact")
             ELSE IF has("q1b") THEN Some("approx") ELSE None,
         started_at_value |->
             IF has("q1a") THEN Some(answers_by_id["q1a"].value)
             ELSE IF has("q1b") THEN Some(answers_by_id["q1b"].value) ELSE None,
         still_pain |->
             IF has("q2") THEN Some(answers_by_id["q2"].key = "a") ELSE None,
         pain_quality |->
             IF has("q4") /\ "label" \in DOMAIN answers_by_id["q4"]
             THEN Some(answers_by_id["q4"].label) ELSE None,
         pain_scale |-> pain_scale,
         requires_attention |-> requires_attention(pain_scale)]

(***************************************************************************)
(* evaluate_survey_progress, survey.py lines 735-863: one iteration of the *)
(* loop over the steps.  The result says how the iteration ends: "raise"   *)
(* or "return" with the response, or "continue" with the moved cursor.     *)
(***************************************************************************)
\* A store of answers that keeps the record an id already has.
PutOnce(answers_by_id, qid, record) ==
    [q \in DOMAIN answers_by_id \cup {qid} |->
        IF q \in DOMAIN answers_by_id THEN answers_by_id[q] ELSE record]

\* answers_by_id[cursor] = record
Put(answers_by_id, qid, record) ==
    [q \in DOMAIN answers_by_id \cup {qid} |->
        IF q = qid THEN record ELSE answers_by_id[q]]

FreeTextRecord(val) == [type |-> "free_text", value |-> val]

ChoiceRecord(qtype, key, opt) == [type |-> qtype, key |-> key, label |-> opt.label]

ScaleRecord(qtype, key, opt) ==
    [type |-> qtype, key |-> key, label |-> opt.label,
     score |-> _parse_scale(opt.label)]

EvalRaise(resp, cursor, answers_by_id) ==
    [ctl |-> "raise", resp |-> resp, cursor |-> cursor, answers |-> answers_by_id]

\* lines 842-861: finish or advance
EvalAdvance(cursor, answers_by_id, next_id, qmap) ==
    IF next_id = None
    THEN [ctl |-> "return", resp |-> Finished(Some(_build_summary(answers_by_id))),
          cursor |-> cursor, answers |-> answers_by_id]
    ELSE IF ~InMap(The(next_id), qmap)
    THEN EvalRaise(HttpError(500, "BROKEN_DEFINITION", <<cursor>>), cursor, answers_by_id)
    ELSE [ctl |-> "continue", resp |-> None,
          cursor |-> The(next_id)[1], answers |-> answers_by_id]

\* A flow test that takes every question id for the expected one.
NeverDiverges(qid, cursor) == FALSE

\* line 750: if qid != cursor
Diverges(qid, cursor) == qid # cursor

evaluate_iteration(cursor, answers_by_id, step) ==
    LET qmap == SURVEY_DEFINITION["abdominal_questions"] IN
    IF Diverges(step.question_id, cursor)
    THEN EvalRaise(HttpError(400, "FLOW_DIVERGENCE", <<cursor, step.question_id>>),
                   cursor, answers_by_id)
    ELSE IF cursor \notin DOMAIN qmap
    THEN EvalRaise(HttpError(500, "BROKEN_DEFINITION", <<cursor>>), cursor, answers_by_id)
    ELSE
    LET node  == qmap[cursor]
        qtype == node.type
    IN  IF qtype = "free_text"
        THEN LET val == step.answer IN
             IF val = None \/ Strip(The(val)) = <<>>
             THEN EvalRaise(HttpError(400, "MISSING_ANSWER", <<cursor>>),
                            cursor, answers_by_id)
             ELSE IF node.id = "q1a" /\ ~FullMatchIsoDate(Strip(The(val)))
             THEN EvalRaise(HttpError(400, "DATE_FORMAT", <<>>), cursor, answers_by_id)
             ELSE EvalAdvance(cursor,
                              Put(answers_by_id, cursor, FreeTextRecord(Strip(The(val)))),
                              node.next, qmap)
        ELSE IF qtype \in {"single_choice", "scale"}
        THEN LET key == step.answer IN
             IF key = None \/ Strip(The(key)) = <<>>
             THEN EvalRaise(HttpError(400, "MISSING_ANSWER", <<cursor>>),
                            cursor, answers_by_id)
             ELSE IF ~IsKey(The(key), node.options)
             THEN EvalRaise(HttpError(400, "INVALID_ANSWER", <<cursor>>),
                            cursor, answers_by_id)
             ELSE LET k   == The(key)[1]
                      opt == node.options[k]
                      record == IF qtype = "scale"
                                THEN ScaleRecord(qtype, k, opt)
                                ELSE ChoiceRecord(qtype, k, opt)
                  IN  EvalAdvance(cursor, Put(answers_by_id, cursor, record),
                                  opt.next, qmap)
        ELSE EvalRaise(HttpError(400, "UNSUPPORTED_TYPE", <<cursor>>),
                       cursor, answers_by_id)

(***************************************************************************)
(* survey_next, survey.py lines 578-687: the stateless single step.        *)
(***************************************************************************)
\* line 580: active_section = "min_criteria"
NEXT_SECTION == "min_criteria"

\* survey_next, lines 582-687, for the section that line 580 names
survey_next_in(active_section, question_id, answer) ==
    \* lines 584 and 587 index SURVEY_DEFINITION[active_section]
    IF active_section \notin DOMAIN SURVEY_DEFINITION THEN Unhandled("KeyError")
    ELSE
    LET qmap == SURVEY_DEFINITION[active_section] IN
    IF question_id = None THEN show_question(qmap[START_ID])
    ELSE
    LET qid == The(question_id) IN
    IF qid \notin DOMAIN qmap
    THEN HttpError(400, "UNKNOWN_QUESTION", <<qid>>)
    ELSE
    LET current == qmap[qid] IN
    IF current.type = "free_text"
    THEN IF answer = None \/ Strip(The(answer)) = <<>>
         THEN HttpError(400, "MISSING_ANSWER", <<qid>>)
         ELSE
         LET needs_iso_date ==
                 current.id = "q1a" \/ current.pattern = Some("ISO_YYYY_MM_DD")
             next_qid == current.next
         IN  IF needs_iso_date /\ ~FullMatchIsoDate(Strip(The(answer)))
             THEN HttpError(400, "DATE_FORMAT", <<>>)
             ELSE IF next_qid = None \/ next_qid = Some(<<"END">>)
             THEN Finished(None)
             ELSE IF ~InMap(The(next_qid), qmap)
             THEN HttpError(500, "BROKEN_DEFINITION", <<qid>>)
             ELSE show_question(qmap[The(next_qid)[1]])
    ELSE IF current.type \notin {"single_choice", "scale"}
    THEN HttpError(400, "UNSUPPORTED_TYPE", <<qid>>)
    ELSE IF answer = None \/ Strip(The(answer)) = <<>>
    THEN HttpError(400, "MISSING_ANSWER", <<qid>>)
    ELSE IF IsKey(The(answer), current.options)
    THEN LET next_qid == current.options[The(answer)[1]].next IN
         IF next_qid = None THEN Finished(None)
         ELSE IF ~InMap(The(next_qid), qmap)
         THEN HttpError(500, "BROKEN_DEFINITION", <<qid>>)
         ELSE show_question(qmap[The(next_qid)[1]])
    ELSE HttpError(400, "INVALID_ANSWER", <<qid>>)

survey_next(question_id, answer) == survey_next_in(NEXT_SECTION, question_id, answer)

(***************************************************************************)
(* The inputs the model tries.                                             *)
(***************************************************************************)
Blank == <<>>

Spaces == <<" ", " ">>

IsoDate == <<"2", "0", "2", "5", "-", "0", "9", "-", "0", "1">>

PaddedIsoDate == <<" ">> \o IsoDate \o <<" ">>

SlashDate == <<"0", "9", "/", "0", "1", "/", "2", "0", "2", "5">>

ShortDate == <<"2", "0", "2", "5", "-", "9", "-", "1">>

SomeText == <<"2", " ", "w", "e", "e", "k", "s">>

PaddedKey == <<" ", "a", " ">>

UnknownKey == <<"z">>

KeyInputs == {<<k>> : k \in {"a", "b", "c", "d", "e", "f", "g"}}

TextInputs == {Blank, Spaces, IsoDate, PaddedIsoDate, SlashDate, ShortDate, SomeText}

AnswerInputs == TextInputs \cup KeyInputs \cup {PaddedKey, UnknownKey}

\* The option keys tried as accepted answers at a node: every key of the
\* scale node, and enough keys elsewhere to walk each branch that ends.
ExploredKeys(qid) ==
    CASE qid = "q5" -> {"a", "b", "c", "d", "e"}
      [] qid \in {"q1", "q2", "q3", "q4", "q20"} -> {"a", "b"}
      [] qid \in {"q9", "q16", "q17", "q19"} -> {"b"}
      [] OTHER -> {"a"}

\* The answers tried at a node: for the exact-date node every text, for
\* another free-text node the blank texts and one text, for a choice node
\* every input except the keys of the node that are not explored.
InputsFor(node) ==
    IF node.type = "free_text"
    THEN IF node.id = "q1a" THEN TextInputs ELSE {Blank, Spaces, SomeText}
    ELSE AnswerInputs \ {<<k>> : k \in DOMAIN node.options \ ExploredKeys(node.id)}

\* Question ids tried besides the expected one: two nodes and an unknown id.
QuestionIdInputs == {"q1", "q20", "zz"}

\* The answers tried together with a question id that is not the expected one.
DivergentAnswers == {Blank, <<"a">>, IsoDate}

\* The steps tried when the cursor is at `cursor` of section map `qmap`.
StepInputs(cursor, qmap) ==
    {<<cursor, a>> : a \in IF cursor \in DOMAIN qmap
                            THEN InputsFor(qmap[cursor]) ELSE AnswerInputs}
    \cup ((QuestionIdInputs \ {cursor}) \X DivergentAnswers)


VARIABLES
    e_pc,       \* evaluate: "call", "loop" (inside the for loop) or "returned"
    e_hist,     \* evaluate: the steps of request.history consumed so far
    e_cursor,   \* evaluate: the local `cursor`
    e_answers,  \* evaluate: the local `answers_by_id`
    e_resp,     \* evaluate: the response, None until the call ends
    n_req,      \* survey_next: the request, None before the call
    n_resp,     \* survey_next: the response
    runs,       \* InMemoryRunStore._runs: run id -> stored record
    lock,       \* InMemoryRunStore._lock: the thread holding it, or None
    now,        \* the UTC clock, in milliseconds
    pc,         \* per thread: "idle", or where its call stands
    req,        \* per thread: the call being made or last made
    held,       \* per thread: the record object it holds, with what it shares
    calls,      \* the number of store and service calls made so far
    resp,       \* per thread: the outcome of its last call, None while running
    db_cases,   \* the session: the case rows added and flushed
    db_events,  \* the session: the event rows added and flushed
    c_pc,       \* case service: "idle", or where create_case_from_intake stands
    c_args,     \* case service: the call being made or last made
    c_case,     \* case service: the local `case` of create_case_from_intake
    c_resp,     \* case service: the outcome of the last call, None while running
    s_made,     \* SessionLocal: the number of sessions made so far
    s_open,     \* the sessions that are open
    r_pc,       \* per request: "idle", "handler", "returned" or "raised"
    r_db,       \* per request: `db` of get_db, the session it was handed
    db_committed \* the database: the case and event rows that are committed

engineVars == <<e_pc, e_hist, e_cursor, e_answers, e_resp, n_req, n_resp>>

storeVars == <<runs, lock, now, pc, req, held, calls, resp>>

caseVars == <<db_cases, db_events, c_pc, c_args, c_case, c_resp>>

sessionVars == <<s_made, s_open, r_pc, r_db, db_committed>>

vars == <<engineVars, storeVars, caseVars, sessionVars>>

otherThanEngine == <<storeVars, caseVars, sessionVars>>

otherThanStore == <<engineVars, caseVars, sessionVars>>

otherThanCases == <<engineVars, storeVars, sessionVars>>

otherThanSessions == <<engineVars, storeVars>>

\* The stateless endpoints read and write nothing that the store and the run
\* endpoints read or write, so a behaviour exercises one of the two families:
\* a call of one family starts only while the other is untouched.
StatelessUntouched == e_pc = "call" /\ n_resp = None

RunsUntouched == runs = <<>> /\ calls = 0 /\ \A t \in DOMAIN req : req[t] = None

\* lines 744-745: an empty history returns the first node
EvaluateEmptyHistory ==
    /\ e_pc = "call" /\ n_resp = None
    /\ RunsUntouched
    /\ e_pc' = "returned"
    /\ e_resp' = Some(show_question(SURVEY_DEFINITION["abdominal_questions"][e_cursor]))
    /\ UNCHANGED <<e_hist, e_cursor, e_answers, n_req, n_resp>>
    /\ UNCHANGED otherThanEngine

\* lines 749-861: the loop consumes the next step of the history
EvaluateStep ==
    /\ e_pc \in {"call", "loop"} /\ n_resp = None
    /\ RunsUntouched
    /\ \E in \in StepInputs(e_cursor, AbdominalQuestions) :
          LET step == [question_id |-> in[1], answer |-> Some(in[2])]
              it   == evaluate_iteration(e_cursor, e_answers, step)
          IN  /\ e_hist' = Append(e_hist, step)
              /\ e_cursor' = it.cursor
              /\ e_answers' = it.answers
              /\ e_resp' = IF it.ctl = "continue" THEN None ELSE Some(it.resp)
              /\ e_pc' = IF it.ctl = "continue" THEN "loop" ELSE "returned"
    /\ UNCHANGED <<n_req, n_resp>>
    /\ UNCHANGED otherThanEngine

\* line 863: the history is exhausted before the flow ends
EvaluateExhausted ==
    /\ e_pc = "loop"
    /\ e_pc' = "returned"
    /\ e_resp' = Some(show_question(SURVEY_DEFINITION["abdominal_questions"][e_cursor]))
    /\ UNCHANGED <<e_hist, e_cursor, e_answers, n_req, n_resp>>
    /\ UNCHANGED otherThanEngine

\* POST /api/survey/next with a request body
SurveyNext ==
    /\ e_pc = "call" /\ n_resp = None
    /\ RunsUntouched
    /\ \E question_id \in {None} \cup {Some(q) : q \in DOMAIN MinCriteriaQuestions
                                                    \cup {"q1a"} \cup QuestionIdInputs},
          answer \in {None} \cup {Some(a) : a \in AnswerInputs} :
          /\ n_req' = Some([question_id |-> question_id, answer |-> answer])
          /\ n_resp' = Some(survey_next(question_id, answer))
    /\ UNCHANGED <<e_pc, e_hist, e_cursor, e_answers, e_resp>>
    /\ UNCHANGED otherThanEngine

EngineNext ==
    \/ EvaluateEmptyHistory
    \/ EvaluateStep
    \/ EvaluateExhausted
    \/ SurveyNext


(***************************************************************************)
(* InMemoryRunStore, storage.py.                                           *)
(*                                                                         *)
(* A run record is a Python dict holding a list (history) and dicts        *)
(* (answers_by_id, summary).  A reference a caller holds is a value        *)
(* together with `shared`: which of the record's objects are the very      *)
(* objects of the stored run, so that a mutation through the reference     *)
(* writes through to the store.                                            *)
(***************************************************************************)
NumThreads == 2

Threads == 1..NumThreads

RunIds == {"r1", "r2"}

MaxClock == 1

\* The calls one behaviour makes, over all threads.
MaxCalls == 3

\* from app.core.config import SURVEY_VERSION
SURVEY_VERSION == "survey-version"

\* The objects of a run record that can be mutated in place.
Parts == {"record", "history", "answers_by_id", "summary"}

\* `return run`, without a copy: the caller holds the very objects passed in.
SameObject(run) == [val |-> run, shared |-> Parts]

\* copy.deepcopy(run): an equal value that shares no object with `run`
deepcopy(run) == [val |-> run, shared |-> {}]

Raise(exc, msg) == [kind |-> "error", status |-> 500, code |-> exc, detail |-> <<msg>>]

Return(value) == [kind |-> "ok", value |-> value]

\* the dict literal of begin_run, runs.py lines 164-173
NewRun(run_id, section, cursor) ==
    [run_id |-> run_id, version |-> SURVEY_VERSION, status |-> "active",
     active_section |-> section, cursor |-> cursor, history |-> <<>>,
     answers_by_id |-> <<>>, summary |-> None,
     created_at |-> None, updated_at |-> None]

\* "run_id" not in run or not run["run_id"]: run_id None stands for both
NoRunId(run) == run.run_id = None

\* _ts_utc_iso(), storage.py lines 28-30
_ts_utc_iso == now

\* A lock that lets every thread in.
NeverBlocks(t) == TRUE

\* `with self._lock:` a thread enters when the lock is free or its own
CanAcquire(t) == lock = None \/ lock = Some(t)

Tick ==
    /\ now < MaxClock
    /\ now' = now + 1
    /\ UNCHANGED <<runs, lock, pc, req, held, calls, resp>>
    /\ UNCHANGED otherThanStore

\* What a thread holds: a record, what it shares with the stored run of its
\* id, and where it came from.
Holding(ref, origin) == Some([val |-> ref.val, shared |-> ref.shared, origin |-> origin])

\* The threads that keep the record of a finished call, and may mutate it.
Keepers == {1}

\* What thread `t` holds once its call has ended.
Kept(t, holding) == IF t \in Keepers THEN holding ELSE None

\* A store entry is overwritten by a new object: nobody shares with it any more.
Unshare(h, run_id) ==
    [t \in Threads |->
        IF h[t] # None /\ The(h[t]).val.run_id = Some(run_id)
        THEN Some([The(h[t]) EXCEPT !.shared = {}]) ELSE h[t]]

\* create_run, storage.py lines 40-53 ---------------------------------------
\* lines 41-42, before the lock is taken
CreateCall(t, run) ==
    /\ pc[t] = "idle"
    /\ StatelessUntouched
    /\ calls < MaxCalls
    /\ calls' = calls + 1
    /\ req' = [req EXCEPT ![t] = Some([op |-> "create_run", run_id |-> run.run_id])]
    /\ IF NoRunId(run)
       THEN /\ resp' = [resp EXCEPT ![t] = Some(Raise("ValueError", "run_id is required"))]
            /\ pc' = pc
            /\ held' = held
       ELSE /\ resp' = [resp EXCEPT ![t] = None]
            /\ pc' = [pc EXCEPT ![t] = "create_lock"]
            /\ held' = [held EXCEPT ![t] =
                           IF held[t] # None /\ The(held[t]).val = run
                              /\ The(held[t]).shared # {}
                           \* the record still holds the objects that the
                           \* caller passed to update_run
                           THEN held[t]
                           ELSE Holding([val |-> run, shared |-> {}], "create_arg")]
    /\ UNCHANGED <<runs, lock, now>>
    /\ UNCHANGED otherThanStore

\* line 44
CreateAcquire(t) ==
    /\ pc[t] = "create_lock"
    /\ CanAcquire(t)
    /\ lock' = Some(t)
    /\ pc' = [pc EXCEPT ![t] = "create_check"]
    /\ UNCHANGED <<runs, now, req, held, calls, resp>>
    /\ UNCHANGED otherThanStore

\* lines 45-46: the raise leaves the with block, which releases the lock
CreateCheck(t) ==
    /\ pc[t] = "create_check"
    /\ LET run == The(held[t]).val IN
       IF The(run.run_id) \in DOMAIN runs
       THEN /\ resp' = [resp EXCEPT ![t] = Some(Raise("ValueError", "already exists"))]
            /\ lock' = IF lock = Some(t) THEN None ELSE lock
            /\ pc' = [pc EXCEPT ![t] = "idle"]
            /\ held' = [held EXCEPT ![t] = Kept(t, held[t])]
       ELSE /\ pc' = [pc EXCEPT ![t] = "create_store"]
            /\ UNCHANGED <<lock, resp, held>>
    /\ UNCHANGED <<runs, now, req, calls>>
    /\ UNCHANGED otherThanStore

\* A copy stored as it came.
Unstamped(run) == run

\* lines 49-51: the stamped copy that is stored
Stamped(run) ==
    LET created == IF run.created_at = None THEN Some(_ts_utc_iso) ELSE run.created_at
    IN  [run EXCEPT !.created_at = created,
                    !.updated_at = IF run.updated_at = None THEN created
                                   ELSE run.updated_at]

\* A map that holds the one item.
OnlyItem(d, key, value) == key :> value

\* line 53: self._runs[run["run_id"]] = run
SetItem(d, key, value) == (key :> value) @@ d

\* lines 49-53
CreateStore(t) ==
    /\ pc[t] = "create_store"
    /\ LET arg    == The(held[t]).val
           run_id == The(arg.run_id)
           copy   == deepcopy(arg)
           stored == Stamped(copy.val)
           mine   == [val    |-> IF "record" \in copy.shared THEN stored ELSE arg,
                      shared |-> copy.shared]
       IN  /\ runs' = SetItem(runs, run_id, stored)
           /\ held' = [Unshare(held, run_id) EXCEPT ![t] = Kept(t, Holding(mine, "create_arg"))]
    /\ lock' = IF lock = Some(t) THEN None ELSE lock
    /\ resp' = [resp EXCEPT ![t] = Some(Return(None))]
    /\ pc' = [pc EXCEPT ![t] = "idle"]
    /\ UNCHANGED <<now, req, calls>>
    /\ UNCHANGED otherThanStore

\* get_run, storage.py lines 55-58 ------------------------------------------
GetRun(t, run_id) ==
    /\ pc[t] = "idle"
    /\ CanAcquire(t)
    /\ calls < MaxCalls
    /\ calls' = calls + 1
    /\ req' = [req EXCEPT ![t] = Some([op |-> "get_run", run_id |-> Some(run_id)])]
    /\ IF run_id \in DOMAIN runs
       THEN LET copy == deepcopy(runs[run_id]) IN
            /\ resp' = [resp EXCEPT ![t] = Some(Return(Some(copy.val)))]
            /\ held' = [held EXCEPT ![t] = Kept(t, Holding(copy, "get_ret"))]
       ELSE /\ resp' = [resp EXCEPT ![t] = Some(Return(None))]
            /\ held' = [held EXCEPT ![t] = None]
    /\ UNCHANGED <<runs, lock, now, pc>>
    /\ UNCHANGED otherThanStore

\* update_run, storage.py lines 60-72 ---------------------------------------
\* record[k] = v for every change, then record["updated_at"] = _ts_utc_iso()
Updated(record, changes) ==
    [f \in DOMAIN record |->
        IF f = "updated_at" THEN Some(_ts_utc_iso)
        ELSE IF f \in DOMAIN changes THEN changes[f] ELSE record[f]]

\* The fields of a stored run are overwritten: nobody but `t` shares them.
UnshareParts(h, run_id, parts, t) ==
    [u \in Threads |->
        IF u # t /\ h[u] # None /\ The(h[u]).val.run_id = Some(run_id)
           /\ "record" \notin The(h[u]).shared
        THEN Some([The(h[u]) EXCEPT !.shared = @ \ parts]) ELSE h[u]]

UpdateRun(t, run_id, changes) ==
    /\ pc[t] = "idle"
    /\ CanAcquire(t)
    /\ calls < MaxCalls
    /\ calls' = calls + 1
    /\ req' = [req EXCEPT ![t] = Some([op |-> "update_run", run_id |-> Some(run_id)])]
    /\ IF run_id \notin DOMAIN runs
       THEN /\ resp' = [resp EXCEPT ![t] = Some(Raise("KeyError", "not found"))]
            /\ UNCHANGED <<runs, held>>
       ELSE LET record == Updated(runs[run_id], changes)
                copy   == deepcopy(record)
                \* the values of `changes` are stored as they are, not copied
                passed == [val |-> record, shared |-> DOMAIN changes \cap Parts]
            IN  /\ runs' = [runs EXCEPT ![run_id] = record]
                /\ resp' = [resp EXCEPT ![t] = Some(Return(Some(copy.val)))]
                /\ \E keep \in {Holding(copy, "update_ret"), Holding(passed, "update_arg")} :
                      held' = [UnshareParts(held, run_id, DOMAIN changes, t)
                                 EXCEPT ![t] = Kept(t, keep)]
    /\ UNCHANGED <<lock, now, pc>>
    /\ UNCHANGED otherThanStore

\* replace_run, storage.py lines 74-87 --------------------------------------
\* line 85: new_run["updated_at"] = _ts_utc_iso()
Refreshed(run) == [run EXCEPT !.updated_at = Some(_ts_utc_iso)]

ReplaceRun(t, run) ==
    /\ pc[t] = "idle"
    /\ calls < MaxCalls
    /\ calls' = calls + 1
    /\ req' = [req EXCEPT ![t] = Some([op |-> "replace_run", run_id |-> run.run_id])]
    /\ IF NoRunId(run)
       THEN /\ resp' = [resp EXCEPT ![t] = Some(Raise("ValueError", "run_id is required"))]
            /\ UNCHANGED <<runs, held>>
       ELSE /\ CanAcquire(t)
            /\ LET run_id == The(run.run_id) IN
               IF run_id \notin DOMAIN runs
               THEN /\ resp' = [resp EXCEPT ![t] = Some(Raise("KeyError", "not found"))]
                    /\ UNCHANGED <<runs, held>>
               ELSE LET first   == deepcopy(run)
                        new_run == Refreshed(first.val)
                        second  == deepcopy(new_run)
                        arg     == [val    |-> IF "record" \in first.shared
                                               THEN new_run ELSE run,
                                    shared |-> first.shared]
                    IN  /\ runs' = [runs EXCEPT ![run_id] = new_run]
                        /\ resp' = [resp EXCEPT ![t] = Some(Return(Some(second.val)))]
                        /\ \E keep \in {Holding(arg, "replace_arg"),
                                        Holding(second, "replace_ret")} :
                              held' = [Unshare(held, run_id) EXCEPT ![t] = Kept(t, keep)]
    /\ UNCHANGED <<lock, now, pc>>
    /\ UNCHANGED otherThanStore

\* The caller mutates the record it holds -----------------------------------
MaxHistory == 1

CallerStep == [question_id |-> "q1", answer |-> <<"a">>]

CallerAnswer == FreeTextRecord(<<"x">>)

\* The mutations a caller makes: history.append(step), answers_by_id["q1"] =
\* record, run["status"] = "cancelled".
Mutated(run, kind) ==
    CASE kind = "history" -> [run EXCEPT !.history = Append(@, CallerStep)]
      [] kind = "answers_by_id" -> [run EXCEPT !.answers_by_id = Put(@, "q1", CallerAnswer)]
      [] kind = "record" -> [run EXCEPT !.status = "cancelled"]

CanMutate(run, kind) ==
    CASE kind = "history" -> Len(run.history) < MaxHistory
      [] kind = "answers_by_id" -> "q1" \notin DOMAIN run.answers_by_id
      [] kind = "record" -> run.status # "cancelled"

\* A mutation reaches the stored run when the mutated object, or the record
\* that holds it, is shared with the store.
WritesThrough(h, kind) == h.shared \cap {"record", kind} # {}

CallerMutates(t, kind) ==
    /\ pc[t] = "idle"
    /\ held[t] # None
    /\ LET h == The(held[t]) IN
       /\ h.origin = "update_arg" => kind \in h.shared
       /\ CanMutate(h.val, kind)
       /\ held' = [held EXCEPT ![t] = Some([h EXCEPT !.val = Mutated(h.val, kind)])]
       /\ IF WritesThrough(h, kind)
          THEN LET run_id == The(h.val.run_id)
                   f == IF kind = "record" THEN "status" ELSE kind
               IN  runs' = [runs EXCEPT ![run_id] =
                               [@ EXCEPT ![f] = Mutated(h.val, kind)[f]]]
          ELSE runs' = runs
    /\ UNCHANGED <<lock, now, pc, req, calls, resp>>
    /\ UNCHANGED otherThanStore

\* The records and changes callers pass to the store.
StoreRecords ==
    {NewRun(Some(id), "min_criteria", Some(START_ID)) : id \in RunIds}
    \cup {NewRun(None, "min_criteria", Some(START_ID))}

StoreChanges ==
    {[status |-> "cancelled"], [history |-> <<CallerStep>>, answers_by_id |-> <<>>]}

\* What a caller may pass as a record: a fresh one or the one it holds.
RecordsOf(t) == StoreRecords \cup {The(h).val : h \in {held[t]} \ {None}}

StoreNext ==
    \/ Tick
    \/ \E t \in Threads :
        \/ \E run \in RecordsOf(t) : CreateCall(t, run)
        \/ CreateAcquire(t)
        \/ CreateCheck(t)
        \/ CreateStore(t)
        \/ \E run_id \in RunIds : GetRun(t, run_id)
        \/ \E run_id \in RunIds, changes \in StoreChanges : UpdateRun(t, run_id, changes)
        \/ \E run \in RecordsOf(t) : ReplaceRun(t, run)
        \/ \E kind \in Parts \ {"summary"} : CallerMutates(t, kind)

(***************************************************************************)
(* The run endpoints, runs.py.  A handler works on `run`, the record that  *)
(* STORE.get_run returned to it, and persists it with STORE.replace_run.   *)
(***************************************************************************)
\* The body the run endpoints return; a body without a summary has None.
RunResponse(run, done, next, summary) ==
    [kind |-> "ok", run_id |-> run.run_id, done |-> done, next |-> next,
     summary |-> summary, version |-> run.version]

NodeFound(node) == [raised |-> None, node |-> node]

NodeRaised(error) == [raised |-> Some(error), node |-> None]

\* f"...{cursor}..." of an optional cursor
CursorText(cursor) == IF cursor = None THEN "None" ELSE The(cursor)

\* _cursor_to_node(cursor, active_section), lines 104-135
_cursor_to_node(cursor, active_section) ==
    IF active_section \notin DOMAIN SURVEY_DEFINITION
    THEN NodeRaised(HttpError(500, "BROKEN_DEFINITION", <<active_section>>))
    ELSE LET qmap == SURVEY_DEFINITION[active_section] IN
         IF cursor = None THEN NodeFound(None)
         ELSE IF The(cursor) \notin DOMAIN qmap
         THEN NodeRaised(HttpError(500, "BROKEN_DEFINITION", <<The(cursor)>>))
         ELSE NodeFound(Some(qmap[The(cursor)]))

\* A call of _cursor_to_node with the arguments `args`: both parameters of
\* line 104 are required, and Python raises TypeError when one is missing.
CursorToNodeCall(args) ==
    IF Len(args) < 2 THEN NodeRaised(Unhandled("TypeError"))
    ELSE _cursor_to_node(args[1], args[2])

\* _new_run_id(), lines 34-39: the ids the random generator can give
NewRunIds == RunIds

\* begin_run, lines 154-185, up to the store call: the response when the
\* handler raises, else the record it passes to STORE.create_run.
begin_run(run_id) ==
    LET cursor == START_ID
        \* line 161: _cursor_to_node(cursor)
        call   == CursorToNodeCall(<<Some(cursor)>>)
    IN  IF call.raised # None
        THEN [raised |-> call.raised, record |-> None, node |-> None]
        ELSE [raised |-> None,
              record |-> Some(NewRun(Some(run_id), "min_criteria", Some(cursor))),
              node   |-> call.node]

\* _require_run, lines 42-55, on what STORE.get_run returned
UnknownRun(run_id) == HttpError(404, "UNKNOWN_RUN", <<run_id>>)

\* A resume that answers done without the summary.
ResumeWithoutSummary(run) == RunResponse(run, TRUE, None, None)

\* resume_run, lines 188-232, on the record `run` that _require_run returned
resume_run(run) ==
    LET active_section == run.active_section IN
    \* line 197: qmap = SURVEY_DEFINITION[active_section]
    IF active_section \notin DOMAIN SURVEY_DEFINITION THEN Unhandled("KeyError")
    ELSE IF run.status = "completed"
    THEN RunResponse(run, TRUE, None, run.summary)
    ELSE IF run.status = "cancelled"
    THEN RunResponse(run, TRUE, None, None)
    ELSE \* line 223: _cursor_to_node(cursor)
         LET call == CursorToNodeCall(<<run.cursor>>) IN
         IF call.raised # None THEN The(call.raised)
         ELSE RunResponse(run, FALSE, show_question(The(call.node)).next, None)

\* How answer_question leaves its validation: it raises `resp`, or it goes
\* on to STORE.replace_run with the local record `run`.
AnswerRaised(error, run) == [ctl |-> "raise", resp |-> Some(error), run |-> run]

\* A handler that persists a completed record with its cursor left at the
\* question that was answered last.
PersistsWithCursor(run) ==
    [ctl |-> "persist", resp |-> None,
     run |-> [run EXCEPT !.cursor = IF @ = None
                                    THEN Some(run.history[Len(run.history)].question_id)
                                    ELSE @]]

\* A handler that persists the record without its summary.
PersistsWithoutSummary(run) ==
    [ctl |-> "persist", resp |-> None, run |-> [run EXCEPT !.summary = None]]

AnswerPersists(run) == [ctl |-> "persist", resp |-> None, run |-> run]

\* lines 322-328: the record of a scale answer, its score parsed in line 327
AnswerScaleRecord(qtype, key, opt) ==
    [type |-> qtype, key |-> key, label |-> opt.label,
     score |-> MatchLeadingInt(Chars(opt.label))]

\* next_id.startswith("GOTO:")
IsGoto(token) == Len(token) > 1 /\ token[1] = "GOTO"

\* lines 350-426: finish or advance the local record
AnswerAdvance(run, next_id, qmap) ==
    IF next_id = None
    THEN AnswerPersists([run EXCEPT !.status = "completed", !.cursor = None,
                                    !.summary = Some(_build_summary(run.answers_by_id))])
    ELSE
    LET token == The(next_id) IN
    IF IsGoto(token)
    THEN \* line 368: next_id.split(":", 2) is unpacked into three names
         IF Len(token) < 3 THEN AnswerRaised(Unhandled("ValueError"), run)
         ELSE
         LET target_section == token[2]
             target_qid     == SubSeq(token, 3, Len(token))
         IN  IF target_section \notin DOMAIN SURVEY_DEFINITION
             THEN AnswerRaised(HttpError(500, "BROKEN_DEFINITION", <<target_section>>), run)
             ELSE IF ~InMap(target_qid, SURVEY_DEFINITION[target_section])
             THEN AnswerRaised(HttpError(500, "BROKEN_DEFINITION",
                                         <<target_qid[1], target_section>>), run)
             ELSE AnswerPersists([run EXCEPT !.active_section = target_section,
                                             !.cursor = Some(target_qid[1])])
    ELSE IF ~InMap(token, qmap)
    THEN AnswerRaised(HttpError(500, "BROKEN_DEFINITION",
                                <<CursorText(run.cursor), token[1]>>), run)
    ELSE AnswerPersists([run EXCEPT !.cursor = Some(token[1])])

\* A status check that lets every run through.
AlwaysActive(run) == None

\* _require_active, lines 58-69: what it raises, if it raises
_require_active(run) ==
    IF run.status # "active"
    THEN Some(HttpError(409, "STATUS_INACTIVE", <<run.status>>))
    ELSE None

\* answer_question, lines 235-426, on the record `run` that _require_run
\* returned, up to the store call
answer_question(run, question_id, answer) ==
    IF _require_active(run) # None
    THEN AnswerRaised(The(_require_active(run)), run)
    ELSE
    LET active_section == run.active_section IN
    \* line 247: qmap = SURVEY_DEFINITION[active_section]
    IF active_section \notin DOMAIN SURVEY_DEFINITION
    THEN AnswerRaised(Unhandled("KeyError"), run)
    ELSE
    LET qmap   == SURVEY_DEFINITION[active_section]
        cursor == run.cursor
        call   == CursorToNodeCall(<<cursor, active_section>>)
    IN
    IF call.raised # None THEN AnswerRaised(The(call.raised), run)
    ELSE IF Some(question_id) # cursor
    THEN AnswerRaised(HttpError(400, "FLOW_DIVERGENCE",
                                <<CursorText(cursor), question_id>>), run)
    ELSE
    LET node  == The(call.node)
        qtype == node.type
        \* req.answer or ""
        text  == IF answer = None THEN <<>> ELSE The(answer)
        step  == [question_id |-> The(cursor), answer |-> text]
    IN  IF qtype = "free_text"
        THEN LET val == Strip(text) IN
             IF val = <<>>
             THEN AnswerRaised(HttpError(400, "MISSING_ANSWER", <<The(cursor)>>), run)
             ELSE IF node.id = "q1a" /\ ~FullMatchIsoDate(val)
             THEN AnswerRaised(HttpError(400, "DATE_FORMAT", <<>>), run)
             ELSE AnswerAdvance(
                      [run EXCEPT !.answers_by_id = Put(@, The(cursor), FreeTextRecord(val)),
                                  !.history = Append(@, step)],
                      node.next, qmap)
        ELSE IF qtype \in {"single_choice", "scale"}
        THEN LET key == Strip(text) IN
             IF key = <<>>
             THEN AnswerRaised(HttpError(400, "MISSING_ANSWER", <<The(cursor)>>), run)
             ELSE IF ~IsKey(key, node.options)
             THEN AnswerRaised(HttpError(400, "INVALID_ANSWER", <<The(cursor)>>), run)
             ELSE LET k      == key[1]
                      opt    == node.options[k]
                      record == IF qtype = "scale"
                                THEN AnswerScaleRecord(qtype, k, opt)
                                ELSE ChoiceRecord(qtype, k, opt)
                  IN  AnswerAdvance(
                          [run EXCEPT !.answers_by_id = Put(@, The(cursor), record),
                                      !.history = Append(@, step)],
                          opt.next, qmap)
        ELSE AnswerRaised(HttpError(400, "UNSUPPORTED_TYPE", <<The(cursor)>>), run)

\* lines 358-365, 403-409 and 431-437: the body built from the local record
\* once STORE.replace_run has returned
AnswerResponse(run) ==
    IF run.status = "completed"
    THEN RunResponse(run, TRUE, None, run.summary)
    ELSE RunResponse(run, FALSE,
             show_question(SURVEY_DEFINITION[run.active_section][The(run.cursor)]).next,
             None)

\* The stored run after the holder of a reference changed its record to
\* `local`: the objects the reference shares with the store changed too.
Through(stored, local, shared) ==
    IF "record" \in shared THEN local
    ELSE [stored EXCEPT
            !.history = IF "history" \in shared THEN local.history ELSE @,
            !.answers_by_id = IF "answers_by_id" \in shared
                              THEN local.answers_by_id ELSE @]

\* POST /survey/begin ---------------------------------------------------------
BeginRun(t, run_id) ==
    /\ pc[t] = "idle"
    /\ StatelessUntouched
    /\ req' = [req EXCEPT ![t] = Some([op |-> "begin", run_id |-> None])]
    /\ LET begun == begin_run(run_id) IN
       IF begun.raised # None
       THEN /\ resp' = [resp EXCEPT ![t] = begun.raised]
            /\ UNCHANGED <<runs, held>>
       ELSE \* line 174: STORE.create_run(record)
            /\ CanAcquire(t)
            /\ IF run_id \in DOMAIN runs
               THEN /\ resp' = [resp EXCEPT ![t] = Some(Unhandled("ValueError"))]
                    /\ UNCHANGED <<runs, held>>
               ELSE LET record == The(begun.record) IN
                    /\ runs' = (run_id :> Stamped(deepcopy(record).val)) @@ runs
                    /\ held' = Unshare(held, run_id)
                    /\ resp' = [resp EXCEPT ![t] =
                                   Some(RunResponse(record, FALSE,
                                            show_question(The(begun.node)).next, None))]
    /\ UNCHANGED <<lock, now, pc, calls>>
    /\ UNCHANGED otherThanStore

\* POST /survey/resume --------------------------------------------------------
ResumeRun(t, run_id) ==
    /\ pc[t] = "idle"
    /\ StatelessUntouched
    /\ CanAcquire(t)
    /\ req' = [req EXCEPT ![t] = Some([op |-> "resume", run_id |-> Some(run_id)])]
    /\ resp' = [resp EXCEPT ![t] =
                   IF run_id \notin DOMAIN runs THEN Some(UnknownRun(run_id))
                   ELSE Some(resume_run(deepcopy(runs[run_id]).val))]
    /\ held' = [held EXCEPT ![t] = None]
    /\ UNCHANGED <<runs, lock, now, pc, calls>>
    /\ UNCHANGED otherThanStore

\* POST /survey/answer --------------------------------------------------------
\* lines 243-355 and 367-425: from STORE.get_run to the call of replace_run
AnswerLoad(t, run_id, question_id, answer) ==
    /\ pc[t] = "idle"
    /\ StatelessUntouched
    /\ CanAcquire(t)
    /\ req' = [req EXCEPT ![t] = Some([op |-> "answer", run_id |-> Some(run_id),
                                       question_id |-> question_id, answer |-> answer])]
    /\ IF run_id \notin DOMAIN runs
       THEN /\ resp' = [resp EXCEPT ![t] = Some(UnknownRun(run_id))]
            /\ held' = [held EXCEPT ![t] = None]
            /\ UNCHANGED <<runs, pc>>
       ELSE LET copy == deepcopy(runs[run_id])
                out  == answer_question(copy.val, question_id, answer)
            IN  /\ runs' = [runs EXCEPT ![run_id] = Through(@, out.run, copy.shared)]
                /\ resp' = [resp EXCEPT ![t] = out.resp]
                /\ IF out.ctl = "persist"
                   THEN /\ pc' = [pc EXCEPT ![t] = "answer_replace"]
                        /\ held' = [held EXCEPT ![t] =
                                       Holding([val |-> out.run, shared |-> copy.shared],
                                               "get_ret")]
                   ELSE /\ pc' = pc
                        /\ held' = [held EXCEPT ![t] = None]
    /\ UNCHANGED <<lock, now, calls>>
    /\ UNCHANGED otherThanStore

\* lines 356, 397 and 426: STORE.replace_run(run), then the response
AnswerPersist(t) ==
    /\ pc[t] = "answer_replace"
    /\ CanAcquire(t)
    /\ LET run    == The(held[t]).val
           run_id == The(run.run_id)
       IN  IF NoRunId(run)
           THEN /\ resp' = [resp EXCEPT ![t] = Some(Unhandled("ValueError"))]
                /\ runs' = runs
                /\ held' = [held EXCEPT ![t] = None]
           ELSE IF run_id \notin DOMAIN runs
           THEN /\ resp' = [resp EXCEPT ![t] = Some(Unhandled("KeyError"))]
                /\ runs' = runs
                /\ held' = [held EXCEPT ![t] = None]
           ELSE LET new_run == [deepcopy(run).val EXCEPT !.updated_at = Some(_ts_utc_iso)]
                IN  /\ runs' = [runs EXCEPT ![run_id] = new_run]
                    /\ resp' = [resp EXCEPT ![t] = Some(AnswerResponse(run))]
                    /\ held' = [Unshare(held, run_id) EXCEPT ![t] = None]
    /\ pc' = [pc EXCEPT ![t] = "idle"]
    /\ UNCHANGED <<lock, now, req, calls>>
    /\ UNCHANGED otherThanStore

\* GET /survey/runs/{run_id}/answers ------------------------------------------
\* line 26: QMAP = SURVEY_DEFINITION["questions"].  The definition has no
\* such key (the import of the module fails on this line); the alias is
\* taken as a graph without nodes, so that QMAP.get finds nothing.
QMAP ==
    IF "questions" \in DOMAIN SURVEY_DEFINITION THEN SURVEY_DEFINITION["questions"] ELSE <<>>

\* A body that is the bare value a handler returned; None is Python's None.
Body(value) == [kind |-> "body", value |-> value]

\* _build_answer_log, lines 72-99, on the runs `stored`: the return of line
\* 99 is inside the loop, and a loop that never runs returns nothing
_build_answer_log(stored, run_id) ==
    IF run_id \notin DOMAIN stored THEN UnknownRun(run_id)
    ELSE LET run == deepcopy(stored[run_id]).val IN
         IF run.history = <<>> THEN Body(None)
         ELSE LET qid    == run.history[1].question_id
                  node   == IF qid \in DOMAIN QMAP THEN Some(QMAP[qid]) ELSE None
                  stored_answer == IF qid \in DOMAIN run.answers_by_id
                                   THEN run.answers_by_id[qid]
                                   ELSE [incomplete |-> TRUE]
              IN  Body(Some(<<[question_id   |-> qid,
                               question_text |-> IF node # None THEN The(node).text
                                                 ELSE "MISSING",
                               type          |-> IF node # None THEN Some(The(node).type)
                                                 ELSE None,
                               answer        |-> stored_answer]>>))

\* show_answer_history, lines 440-441: _require_run, and nothing returned
show_answer_history(stored, run_id) ==
    IF run_id \notin DOMAIN stored THEN UnknownRun(run_id)
    ELSE Body(None)

ShowAnswerHistory(t, run_id) ==
    /\ pc[t] = "idle"
    /\ StatelessUntouched
    /\ CanAcquire(t)
    /\ req' = [req EXCEPT ![t] = Some([op |-> "answers", run_id |-> Some(run_id)])]
    /\ resp' = [resp EXCEPT ![t] = Some(show_answer_history(runs, run_id))]
    /\ held' = [held EXCEPT ![t] = None]
    /\ UNCHANGED <<runs, lock, now, pc, calls>>
    /\ UNCHANGED otherThanStore

\* The records given to STORE.create_run for the run endpoints to work on:
\* the record of begin_run, and one that starts in the first section of
\* SURVEY_DEFINITION.
SeedRuns ==
    {NewRun(Some("r1"), "min_criteria_questions", Some(START_ID)),
     NewRun(Some("r2"), "min_criteria", Some(START_ID)),
     NewRun(Some("r2"), "min_criteria", Some("q6")),
     [NewRun(Some("r2"), "min_criteria", Some(START_ID)) EXCEPT !.status = "cancelled"]}

\* The seed records not created yet; they are created before the first
\* answer is accepted.
Unseeded ==
    {run \in SeedRuns : /\ The(run.run_id) \notin DOMAIN runs
                        /\ \A id \in DOMAIN runs : runs[id].history = <<>>}

\* The option keys the run endpoints try as accepted answers.
RunExploredKeys(section, qid) ==
    IF section = "ae_selector" THEN {"a", "b", "c"}
    ELSE IF section = "abdominal_questions" /\ qid \in {"q1", "q2", "q5", "q20"}
    THEN ExploredKeys(qid)
    ELSE IF section = "abdominal_questions" /\ qid \in {"q9", "q16", "q17", "q19"}
    THEN {"b"}
    ELSE {"a"}

\* The answers tried at a node of a run.
RunInputsFor(section, node) ==
    IF node.type = "free_text"
    THEN IF node.id = "q1a" THEN {None} \cup {Some(a) : a \in TextInputs}
         ELSE {None, Some(Blank), Some(SomeText)}
    ELSE {None, Some(Blank), Some(UnknownKey)}
         \cup {Some(<<k>>) : k \in DOMAIN node.options \cap RunExploredKeys(section, node.id)}
         \cup (IF node.id = "q20" THEN {Some(PaddedKey)} ELSE {})

\* The answer requests tried for run `run_id`: answers to the node of its
\* cursor, and an answer and no answer to another question.
AnswerRequests(run_id) ==
    LET known   == run_id \in DOMAIN runs
                   /\ runs[run_id].active_section \in DOMAIN SURVEY_DEFINITION
                   /\ runs[run_id].cursor # None
                   /\ The(runs[run_id].cursor)
                          \in DOMAIN SURVEY_DEFINITION[runs[run_id].active_section]
        section == runs[run_id].active_section
        cursor  == IF run_id \in DOMAIN runs /\ runs[run_id].cursor # None
                   THEN The(runs[run_id].cursor) ELSE START_ID
    IN  {<<cursor, a>> : a \in IF known
                               THEN RunInputsFor(section, SURVEY_DEFINITION[section][cursor])
                               ELSE {None, Some(<<"a">>)}}
        \cup {<<"zz", Some(<<"a">>)>>, <<"zz", None>>}

\* The threads that call the run endpoints one request after the other.
Clients == {1}

RunNext ==
    \E t \in Clients :
        \/ \E run \in Unseeded : CreateCall(t, run)
        \/ CreateAcquire(t)
        \/ CreateCheck(t)
        \/ CreateStore(t)
        \/ \E run_id \in NewRunIds : BeginRun(t, run_id)
        \/ \E run_id \in RunIds : ResumeRun(t, run_id)
        \/ \E run_id \in RunIds : \E in \in AnswerRequests(run_id) :
              AnswerLoad(t, run_id, in[1], in[2])
        \/ AnswerPersist(t)
        \/ \E run_id \in RunIds : ShowAnswerHistory(t, run_id)

Next ==
    \/ RunNext
    \/ EngineNext

\* Requests of several clients at once.  The handlers are plain functions,
\* which the server runs on the threads of a pool: between the get_run and
\* the replace_run of one request, another request can run.  The runs are
\* created near the end of the abdominal branch.
RaceSeeds == {NewRun(Some("r1"), "abdominal_questions", Some("q19"))}

RaceUnseeded == {run \in RaceSeeds : The(run.run_id) \notin DOMAIN runs}

RaceNext ==
    \E t \in Threads :
        \/ \E run \in RaceUnseeded : CreateCall(t, run)
        \/ CreateAcquire(t)
        \/ CreateCheck(t)
        \/ CreateStore(t)
        \/ \E run_id \in NewRunIds : BeginRun(t, run_id)
        \/ \E run_id \in RunIds : ResumeRun(t, run_id)
        \/ \E run_id \in RunIds : \E in \in AnswerRequests(run_id) :
              AnswerLoad(t, run_id, in[1], in[2])
        \/ AnswerPersist(t)

\* A client that keeps answering: an answer request that the handler goes on
\* to persist.
LiveAnswer(t) ==
    \E run_id \in RunIds : \E in \in AnswerRequests(run_id) :
        /\ AnswerLoad(t, run_id, in[1], in[2])
        /\ pc'[t] = "answer_replace"

LiveCreate(t) ==
    \/ \E run \in Unseeded : CreateCall(t, run)
    \/ CreateAcquire(t)
    \/ CreateCheck(t)
    \/ CreateStore(t)

LiveNext ==
    \E t \in Clients :
        \/ LiveCreate(t)
        \/ LiveAnswer(t)
        \/ AnswerPersist(t)

\* The handler accepts some answer at the cursor of some active run while
\* the client is not in a request.
CanFeed ==
    \E t \in Clients :
        /\ pc[t] = "idle"
        /\ \E id \in DOMAIN runs :
              /\ runs[id].status = "active"
              /\ runs[id].cursor # None
              /\ \E answer \in {None} \cup {Some(a) : a \in AnswerInputs} :
                    answer_question(runs[id], The(runs[id].cursor), answer).ctl = "persist"

\* A step of LiveAnswer: the client's request goes on to replace_run.
FeedStep == \E t \in Clients : pc[t] = "idle" /\ pc'[t] = "answer_replace"

\* Weak fairness of LiveAnswer, with its enabling condition written as the
\* state predicate CanFeed: the client sends an accepted answer as long as
\* there is one.
Fed == ([]<>~CanFeed) \/ ([]<><<FeedStep>>_vars)

(***************************************************************************)
(* The case event service, case_events.py, on one database session.       *)
(*                                                                         *)
(* A Python value is a record with its type: a str or an int with its     *)
(* text, a dict with its items in order, None, or an object of another    *)
(* type.  The rows added to the session and flushed are db_cases and      *)
(* db_events, in the order they were added.                               *)
(***************************************************************************)
PyNone == [type |-> "NoneType"]

PyStr(s) == [type |-> "str", val |-> s]

PyInt(s) == [type |-> "int", val |-> s]

PyDatetime(s) == [type |-> "datetime", val |-> s]

PyList(elems) == [type |-> "list", elems |-> elems]

PyDict(items) == [type |-> "dict", items |-> items]

\* An encoder that takes every value.
AnyValue(value) == TRUE

RECURSIVE JsonSerializable(_)
\* json.dumps(value) does not raise TypeError: the default encoder takes
\* None, str, int, lists, and dicts whose keys are str, int or None.
JsonSerializable(value) ==
    CASE value.type \in {"NoneType", "str", "int"} -> TRUE
      [] value.type = "list" ->
            \A i \in DOMAIN value.elems : JsonSerializable(value.elems[i])
      [] value.type = "dict" ->
            \A i \in DOMAIN value.items :
                /\ value.items[i][1].type \in {"NoneType", "str", "int"}
                /\ JsonSerializable(value.items[i][2])
      [] OTHER -> FALSE

\* models.py lines 22-41: the enum members the service uses
CaseStatus_OPEN == "open"

EventType_CASE_CREATED == "case.created"

EventType_INTAKE_RECEIVED == "intake.received"

EventType_NOTE_ADDED == "note.added"

ActorType_SYSTEM == "system"

ActorType_API == "api"

\* The clock's first reading; a clock that never moves keeps reading it.
ClockStart == 0

\* utc_now(), lines 11-12
utc_now == now

\* `if text:` of an optional str: neither None nor empty
Truthy(text) == text # None /\ The(text) # ""

\* build_case_created_payload, lines 14-29
build_case_created_payload(source, intake_channel, external_ref) ==
    PyDict(<<<<PyStr("schema_version"), PyStr("case.created.v1")>>,
             <<PyStr("source"), PyStr(source)>>>>
           \o (IF Truthy(intake_channel)
               THEN <<<<PyStr("intake_channel"), PyStr(The(intake_channel))>>>>
               ELSE <<>>)
           \o (IF Truthy(external_ref)
               THEN <<<<PyStr("external_ref"), PyStr(The(external_ref))>>>>
               ELSE <<>>))

\* lines 115-121: the payload of the INTAKE_RECEIVED event
intake_event_payload(source, intake_payload, external_ref) ==
    PyDict(<<<<PyStr("schema_version"), PyStr("intake.received.v1")>>,
             <<PyStr("source"), PyStr(source)>>,
             <<PyStr("raw"), intake_payload>>>>
           \o (IF Truthy(external_ref)
               THEN <<<<PyStr("external_ref"), PyStr(The(external_ref))>>>>
               ELSE <<>>))

\* uuid.uuid4() for the next row of a table: an id no row of it has
NewId(rows) == Len(rows) + 1

\* append_event, lines 31-75, on the event rows of the session: what it
\* raises, or the row it adds and flushes
append_event(events, case_id, event_type, payload, actor_type, actor_id, reason, occurred_at) ==
    LET given == IF payload = PyNone THEN PyDict(<<>>) ELSE payload IN
    IF given.type # "dict"
    THEN [raised |-> Some(Raise("ValueError", "payload must be a dict")),
          events |-> events]
    ELSE IF \E i \in DOMAIN given.items : given.items[i][1].type # "str"
    THEN [raised |-> Some(Raise("ValueError", "payload keys must be strings")),
          events |-> events]
    ELSE IF ~JsonSerializable(given)
    THEN [raised |-> Some(Raise("ValueError", "payload is not JSON-serializable")),
          events |-> events]
    ELSE LET event == [id          |-> NewId(events),
                       case_id     |-> case_id,
                       event_type  |-> event_type,
                       occurred_at |-> IF occurred_at = None THEN utc_now
                                       ELSE The(occurred_at),
                       actor_type  |-> actor_type,
                       actor_id    |-> actor_id,
                       reason      |-> reason,
                       payload     |-> given]
         IN  [raised |-> None, events |-> Append(events, event)]

MaxCases == 2

MaxEvents == 3

\* create_case_from_intake, lines 77-132 --------------------------------------
\* lines 90-103: the checks, the receipt time, the case row and its flush
CreateCaseCall(intake_payload, source, intake_channel, external_ref, received_at) ==
    /\ c_pc = "idle"
    /\ Len(db_cases) < MaxCases
    /\ c_args' = Some([op |-> "create_case_from_intake",
                       intake_payload |-> intake_payload, source |-> source,
                       intake_channel |-> intake_channel,
                       external_ref |-> external_ref,
                       actor_type |-> ActorType_API, actor_id |-> None,
                       received_at |-> received_at])
    /\ IF intake_payload.type # "dict"
       THEN /\ c_resp' = Some(Raise("ValueError", "intake payload must be a dict"))
            /\ c_case' = None
            /\ UNCHANGED <<c_pc, db_cases>>
       ELSE LET case == [id          |-> NewId(db_cases),
                         received_at |-> IF received_at = None THEN utc_now
                                         ELSE The(received_at),
                         status      |-> CaseStatus_OPEN,
                         initial_awareness_at |-> None]
            IN  /\ db_cases' = Append(db_cases, case)
                /\ c_case' = Some(case)
                /\ c_resp' = None
                /\ c_pc' = "case_flushed"
    /\ UNCHANGED db_events
    /\ UNCHANGED otherThanCases

\* lines 105-113: the CASE_CREATED event
CreateCaseLogCreated ==
    /\ c_pc = "case_flushed"
    /\ LET args == The(c_args)
           out  == append_event(db_events, The(c_case).id, EventType_CASE_CREATED,
                                build_case_created_payload(args.source,
                                    args.intake_channel, args.external_ref),
                                args.actor_type, args.actor_id, None, None)
       IN  /\ db_events' = out.events
           /\ c_resp' = out.raised
           /\ c_pc' = IF out.raised = None THEN "created_logged" ELSE "idle"
    /\ UNCHANGED <<db_cases, c_args, c_case>>
    /\ UNCHANGED otherThanCases

\* lines 114-132: the INTAKE_RECEIVED event, then the case is returned
CreateCaseLogIntake ==
    /\ c_pc = "created_logged"
    /\ LET args == The(c_args)
           out  == append_event(db_events, The(c_case).id, EventType_INTAKE_RECEIVED,
                                intake_event_payload(args.source, args.intake_payload,
                                                     args.external_ref),
                                args.actor_type, args.actor_id, None, None)
       IN  /\ db_events' = out.events
           /\ c_resp' = IF out.raised = None THEN Some(Return(The(c_case)))
                        ELSE out.raised
    /\ c_pc' = "idle"
    /\ UNCHANGED <<db_cases, c_args, c_case>>
    /\ UNCHANGED otherThanCases

\* append_event called by another caller of the service, lines 31-75
AppendEvent(case_id, payload) ==
    /\ c_pc = "idle"
    /\ Len(db_events) < MaxEvents
    /\ c_args' = Some([op |-> "append_event", case_id |-> case_id, payload |-> payload])
    /\ LET out == append_event(db_events, case_id, EventType_NOTE_ADDED, payload,
                               ActorType_SYSTEM, None, None, None)
       IN  /\ db_events' = out.events
           /\ c_resp' = IF out.raised = None
                        THEN Some(Return(out.events[Len(out.events)]))
                        ELSE out.raised
    /\ c_case' = None
    /\ UNCHANGED <<c_pc, db_cases>>
    /\ UNCHANGED otherThanCases

\* The arguments the callers of the service pass.
IntakePayloads ==
    {PyNone, PyList(<<>>), PyDict(<<>>),
     PyDict(<<<<PyStr("drug"), PyStr("x")>>>>),
     PyDict(<<<<PyInt("1"), PyStr("x")>>>>),
     PyDict(<<<<PyStr("seen"), PyDatetime("d")>>>>)}

EventPayloads ==
    {PyNone, PyList(<<>>),
     PyDict(<<<<PyStr("note"), PyStr("x")>>>>),
     PyDict(<<<<PyInt("1"), PyStr("x")>>>>),
     PyDict(<<<<PyStr("seen"), PyDatetime("d")>>>>),
     PyDict(<<<<PyStr("seen"), PyList(<<PyStr("x"), PyDatetime("d")>>)>>>>),
     PyDict(<<<<PyStr("by"), PyDict(<<<<PyInt("1"), PyNone>>>>)>>>>)}

Sources == {"web"}

IntakeChannels == {None, Some(""), Some("phone")}

ExternalRefs == {None, Some("ref")}

ReceivedAts == {None, Some(ClockStart)}

\* Every intake payload with the other arguments left out, and one intake
\* payload with every choice of the other arguments.
CreateCaseInputs ==
    [intake_payload : IntakePayloads, source : Sources, intake_channel : {None},
     external_ref : {None}, received_at : {None}]
    \cup [intake_payload : {PyDict(<<<<PyStr("drug"), PyStr("x")>>>>)},
          source : Sources, intake_channel : IntakeChannels,
          external_ref : ExternalRefs, received_at : ReceivedAts]

CasesNext ==
    \/ Tick
    \/ \E in \in CreateCaseInputs :
          CreateCaseCall(in.intake_payload, in.source, in.intake_channel,
                         in.external_ref, in.received_at)
    \/ CreateCaseLogCreated
    \/ CreateCaseLogIntake
    \/ \E case_id \in {db_cases[i].id : i \in DOMAIN db_cases},
          payload \in EventPayloads : AppendEvent(case_id, payload)

(***************************************************************************)
(* The database sessions, session.py, and the requests that are handed one *)
(* by get_db.  db_cases and db_events are the rows the session of the case *)
(* handler sees: the committed rows and the rows it flushed since.         *)
(***************************************************************************)
NumRequests == 2

Requests == 1..NumRequests

MaxSessions == 3

\* The requests whose handler calls the case service.
CaseRequests == {1}

\* One session object that every call gives.
SharedSession(made) == 1

\* SessionLocal(), line 18: sessionmaker makes a new Session at every call
SessionLocal(made) == made + 1

\* A close that keeps the rows the session flushed.
KeepsPending(pending, committed) == pending

\* db.close(), line 22, with autocommit=False (line 15): the transaction is
\* rolled back, the rows that were flushed and not committed are gone
Rollback(pending, committed) == committed

\* A close that is skipped when the handler raised.
ClosesOnReturn(outcome) == outcome = "returned"

\* try: yield db / finally: db.close(), lines 19-22: the close runs however
\* the handler ended
Closes(outcome) == TRUE

\* get_db up to its yield, lines 18-20
GetDbOpen(r) ==
    /\ r_pc[r] = "idle"
    /\ s_made < MaxSessions
    /\ LET db == SessionLocal(s_made) IN
       /\ s_made' = s_made + 1
       /\ s_open' = s_open \cup {db}
       /\ r_db' = [r_db EXCEPT ![r] = Some(db)]
    /\ r_pc' = [r_pc EXCEPT ![r] = "handler"]
    /\ UNCHANGED db_committed
    /\ UNCHANGED caseVars
    /\ UNCHANGED otherThanSessions

\* The service call of the handler is over and did not raise.
ServiceDone(r) ==
    r \in CaseRequests =>
        c_pc = "idle" /\ (IF c_resp = None THEN TRUE ELSE The(c_resp).kind = "ok")

\* The service call of the handler raised.
ServiceRaised(r) ==
    r \in CaseRequests /\ c_pc = "idle" /\ c_resp # None /\ The(c_resp).kind = "error"

\* The handler returns: debug.latest, debug.py lines 10-38, or the case handler
HandlerReturns(r) ==
    /\ r_pc[r] = "handler"
    /\ ServiceDone(r)
    /\ r_pc' = [r_pc EXCEPT ![r] = "returned"]
    /\ UNCHANGED <<s_made, s_open, r_db, db_committed>>
    /\ UNCHANGED caseVars
    /\ UNCHANGED otherThanSessions

\* The handler raises: a query of debug.latest fails, or the exception of the
\* case service passes through the case handler
HandlerRaises(r) ==
    /\ r_pc[r] = "handler"
    /\ r \in CaseRequests => ServiceRaised(r)
    /\ r_pc' = [r_pc EXCEPT ![r] = "raised"]
    /\ UNCHANGED <<s_made, s_open, r_db, db_committed>>
    /\ UNCHANGED caseVars
    /\ UNCHANGED otherThanSessions

\* db.commit() of the case handler, once the service call has returned
Commit(r) ==
    /\ r \in CaseRequests
    /\ r_pc[r] = "handler"
    /\ c_pc = "idle" /\ c_resp # None /\ The(c_resp).kind = "ok"
    /\ db_committed # [cases |-> db_cases, events |-> db_events]
    /\ db_committed' = [cases |-> db_cases, events |-> db_events]
    /\ UNCHANGED <<s_made, s_open, r_pc, r_db>>
    /\ UNCHANGED caseVars
    /\ UNCHANGED otherThanSessions

\* get_db after its yield, lines 21-22
GetDbExit(r) ==
    /\ r_pc[r] \in {"returned", "raised"}
    /\ r_pc' = [r_pc EXCEPT ![r] = "idle"]
    /\ r_db' = [r_db EXCEPT ![r] = None]
    /\ s_open' = IF Closes(r_pc[r]) THEN s_open \ r_db[r] ELSE s_open
    /\ IF r \in CaseRequests
       THEN LET left == Rollback([cases |-> db_cases, events |-> db_events],
                                 db_committed)
            IN  /\ db_cases' = IF Closes(r_pc[r]) THEN left.cases ELSE db_cases
                /\ db_events' = IF Closes(r_pc[r]) THEN left.events ELSE db_events
                /\ c_args' = None /\ c_case' = None /\ c_resp' = None
                /\ UNCHANGED c_pc
       ELSE UNCHANGED caseVars
    /\ UNCHANGED <<s_made, db_committed>>
    /\ UNCHANGED otherThanSessions

\* The case handler has its session and calls the service: an exception of
\* the service is not caught, it ends the handler.
InCaseHandler == \E r \in CaseRequests : r_pc[r] = "handler" /\ ~ServiceRaised(r)

\* The intake payloads the case handler passes on.
HandlerIntakes ==
    [intake_payload : IntakePayloads, source : Sources, intake_channel : {None},
     external_ref : {None}, received_at : {None}]

SessionNext ==
    \/ \E r \in Requests :
          \/ GetDbOpen(r)
          \/ HandlerReturns(r)
          \/ HandlerRaises(r)
          \/ Commit(r)
          \/ GetDbExit(r)
    \/ \E in \in HandlerIntakes :
          /\ InCaseHandler
          /\ CreateCaseCall(in.intake_payload, in.source, in.intake_channel,
                            in.external_ref, in.received_at)
    \/ InCaseHandler /\ CreateCaseLogCreated
    \/ InCaseHandler /\ CreateCaseLogIntake
    \/ \E case_id \in {db_cases[i].id : i \in DOMAIN db_cases},
          payload \in EventPayloads :
             InCaseHandler /\ AppendEvent(case_id, payload)

\* The state after construction: no call made, an empty store, a free lock.
Init ==
    /\ e_pc = "call"
    /\ e_hist = <<>>
    /\ e_cursor = START_ID
    /\ e_answers = <<>>
    /\ e_resp = None
    /\ n_req = None
    /\ n_resp = None
    /\ runs = <<>>
    /\ lock = None
    /\ now = ClockStart
    /\ pc = [t \in Threads |-> "idle"]
    /\ req = [t \in Threads |-> None]
    /\ held = [t \in Threads |-> None]
    /\ calls = 0
    /\ resp = [t \in Threads |-> None]
    /\ db_cases = <<>>
    /\ db_events = <<>>
    /\ c_pc = "idle"
    /\ c_args = None
    /\ c_case = None
    /\ c_resp = None
    /\ s_made = 0
    /\ s_open = {}
    /\ r_pc = [r \in Requests |-> "idle"]
    /\ r_db = [r \in Requests |-> None]
    /\ db_committed = [cases |-> <<>>, events |-> <<>>]

SpecEngine == Init /\ [][EngineNext]_vars

SpecStore == Init /\ [][StoreNext]_vars

Spec == Init /\ [][Next]_vars

SpecCases == Init /\ [][CasesNext]_vars

SpecRace == Init /\ [][RaceNext]_vars

SpecSession == Init /\ [][SessionNext]_vars

\* The handlers are plain functions that run to their end, and the client
\* keeps answering.
SpecLive ==
    /\ Init /\ [][LiveNext]_vars
    /\ WF_vars(\E t \in Clients : LiveCreate(t))
    /\ WF_vars(\E t \in Clients : AnswerPersist(t))
    /\ Fed

(***************************************************************************)
(* Properties.                                                             *)
(***************************************************************************)

\* C1: every call of begin succeeds: it answers done=false with the rendering
\* of node q1 of the minimum-criteria section and its run id, and the store
\* holds under that id an active run in section "min_criteria" at cursor q1
\* with an empty history, no answers and no summary.
C1_BeginSucceeds ==
    \A t \in Threads :
        (req[t] # None /\ The(req[t]).op = "begin" /\ resp[t] # None) =>
            /\ The(resp[t]).kind = "ok"
            /\ The(resp[t]).done = FALSE
            /\ The(resp[t]).next = Some(RenderNode(MinCriteriaQuestions[START_ID]))
            /\ The(resp[t]).run_id # None
            /\ The(The(resp[t]).run_id) \in DOMAIN runs
            /\ LET run == runs[The(The(resp[t]).run_id)] IN
               /\ run.status = "active"
               /\ run.active_section = "min_criteria"
               /\ run.cursor = Some(START_ID)
               /\ run.history = <<>>
               /\ run.answers_by_id = <<>>
               /\ run.summary = None

\* A next value resolves from a section: it is absent, "END", a GOTO token
\* whose section and id exist, or an id of the section.
Resolves(section, next) ==
    \/ next = None
    \/ The(next) = <<"END">>
    \/ /\ IsGoto(The(next))
       /\ Len(The(next)) = 3
       /\ The(next)[2] \in DOMAIN SURVEY_DEFINITION
       /\ The(next)[3] \in DOMAIN SURVEY_DEFINITION[The(next)[2]]
    \/ /\ ~IsGoto(The(next))
       /\ InMap(The(next), SURVEY_DEFINITION[section])

\* The references known not to resolve: the options of ae_selector that go
\* to headache_questions and to vomiting_questions.
KnownUnresolved(section, next) ==
    /\ section = "ae_selector"
    /\ next # None
    /\ IsGoto(The(next))
    /\ The(next)[2] \in {"headache_questions", "vomiting_questions"}

\* C2: in the minimum-criteria section, ae_selector and abdominal_questions
\* every option-level and node-level next resolves, except the two options of
\* ae_selector that go to headache_questions and vomiting_questions; and a
\* next that does not resolve is answered as a server fault (status 500),
\* never as a client error.
C2_EveryNextResolves ==
    /\ \A t \in Threads :
          (resp[t] # None /\ The(resp[t]).kind = "error"
             /\ The(resp[t]).code = "BROKEN_DEFINITION") => The(resp[t]).status = 500
    /\ \A section \in {"min_criteria_questions", "ae_selector", "abdominal_questions"} :
        \A q \in DOMAIN SURVEY_DEFINITION[section] :
            LET node == SURVEY_DEFINITION[section][q] IN
            /\ Resolves(section, node.next) \/ KnownUnresolved(section, node.next)
            /\ \A k \in DOMAIN node.options :
                  \/ Resolves(section, node.options[k].next)
                  \/ KnownUnresolved(section, node.options[k].next)

\* Four digits, a dash, two digits, a dash, two digits.
DateShaped(s) ==
    /\ Len(s) = 10
    /\ \A i \in 1..10 : IF i \in {5, 8} THEN s[i] = "-" ELSE s[i] \in Digits

\* The node after the exact-date node.
AfterExactDate == The(AbdominalQuestions["q1a"].next)[1]

\* The run `run_id` is active at node `qid` of `section`.
RunAt(run_id, section, qid) ==
    /\ run_id \in DOMAIN runs
    /\ runs[run_id].status = "active"
    /\ runs[run_id].active_section = section
    /\ runs[run_id].cursor = Some(qid)

\* evaluate consumes a step for q1a while its cursor is at q1a
C3_Evaluate ==
    (/\ e_pc \in {"call", "loop"}
     /\ e_cursor = "q1a"
     /\ Len(e_hist') = Len(e_hist) + 1
     /\ e_hist'[Len(e_hist')].question_id = "q1a"
     /\ e_hist'[Len(e_hist')].answer # None
     /\ Strip(The(e_hist'[Len(e_hist')].answer)) # <<>>)
    => LET text == Strip(The(e_hist'[Len(e_hist')].answer)) IN
       IF DateShaped(text)
       THEN /\ e_pc' = "loop"
            /\ e_cursor' = AfterExactDate
            /\ e_answers' = Put(e_answers, "q1a", FreeTextRecord(text))
       ELSE /\ e_pc' = "returned"
            /\ e_resp' = Some(HttpError(400, "DATE_FORMAT", <<>>))
            /\ e_answers' = e_answers

\* answer validates an answer to q1a for a run that is at q1a
C3_AnswerLoad ==
    \A t \in Threads, run_id \in RunIds, a \in TextInputs :
        (/\ RunAt(run_id, "abdominal_questions", "q1a")
         /\ Strip(a) # <<>>
         /\ AnswerLoad(t, run_id, "q1a", Some(a)))
        => IF DateShaped(Strip(a))
           THEN /\ pc'[t] = "answer_replace"
                /\ The(held'[t]).val.cursor = Some(AfterExactDate)
                /\ The(held'[t]).val.answers_by_id["q1a"] = FreeTextRecord(Strip(a))
           ELSE /\ resp'[t] = Some(HttpError(400, "DATE_FORMAT", <<>>))
                /\ pc'[t] = "idle"
                /\ runs' = runs

\* answer persists the accepted answer to q1a and shows the next node
C3_AnswerPersist ==
    \A t \in Threads :
        (/\ AnswerPersist(t)
         /\ The(req[t]).question_id = "q1a"
         /\ The(held[t]).val.active_section = "abdominal_questions")
        => LET run_id == The(The(req[t]).run_id) IN
           /\ runs'[run_id].cursor = Some(AfterExactDate)
           /\ runs'[run_id].status = "active"
           /\ The(resp'[t]).kind = "ok"
           /\ The(resp'[t]).done = FALSE
           /\ The(The(resp'[t]).next).id = AfterExactDate

\* C3: at the exact-date node q1a an answer whose trimmed text is four
\* digits, dash, two digits, dash, two digits is accepted and the flow moves
\* to the next of q1a; every other non-blank answer fails with DATE_FORMAT
\* and changes nothing; in evaluate and in the answer operation alike.
C3_ExactDate == [][C3_Evaluate /\ C3_AnswerLoad /\ C3_AnswerPersist]_vars

\* The answer operation took a padded ISO date at q1a and moved the run on.
C3_Witness ==
    \E run_id \in DOMAIN runs :
        /\ runs[run_id].active_section = "abdominal_questions"
        /\ runs[run_id].cursor = Some(AfterExactDate)
        /\ "q1a" \in DOMAIN runs[run_id].answers_by_id
        /\ runs[run_id].answers_by_id["q1a"].value = IsoDate
        /\ runs[run_id].history[Len(runs[run_id].history)].answer = PaddedIsoDate

\* An answer is absent or blank: None, empty, or whitespace only.
AbsentOrBlank(answer) == answer = None \/ \A i \in DOMAIN The(answer) : IsSpace(The(answer)[i])

\* The text is one of the option keys of the node.
OneOfTheKeys(answer, node) ==
    Len(The(answer)) = 1 /\ The(answer)[1] \in DOMAIN node.options

\* The response the claim demands for `answer` at `node`, if it demands one.
Demanded(answer, node) ==
    IF AbsentOrBlank(answer) THEN Some("MISSING_ANSWER")
    ELSE IF node.type \in {"single_choice", "scale"} /\ ~OneOfTheKeys(answer, node)
    THEN Some("INVALID_ANSWER")
    ELSE None

Fails(response, code) ==
    response # None /\ The(response).kind = "error" /\ The(response).code = code

\* advance on a node of the minimum-criteria section
C4_Advance ==
    (/\ n_resp' # n_resp
     /\ The(n_req').question_id # None
     /\ The(The(n_req').question_id) \in DOMAIN MinCriteriaQuestions)
    => LET node == MinCriteriaQuestions[The(The(n_req').question_id)]
           code == Demanded(The(n_req').answer, node)
       IN  code # None => Fails(n_resp', The(code))

\* evaluate on the step for the node of its cursor
C4_Evaluate ==
    (/\ e_pc \in {"call", "loop"}
     /\ Len(e_hist') = Len(e_hist) + 1
     /\ e_hist'[Len(e_hist')].question_id = e_cursor
     /\ e_cursor \in DOMAIN AbdominalQuestions)
    => LET code == Demanded(e_hist'[Len(e_hist')].answer, AbdominalQuestions[e_cursor])
       IN  code # None => Fails(e_resp', The(code))

\* answer on the node of the run's cursor, in whatever section the run is
C4_Answer ==
    \A t \in Threads, run_id \in RunIds :
        (/\ run_id \in DOMAIN runs
         /\ runs[run_id].status = "active"
         /\ runs[run_id].cursor # None
         /\ \E in \in AnswerRequests(run_id) :
               /\ in[1] = The(runs[run_id].cursor)
               /\ AnswerLoad(t, run_id, in[1], in[2]))
        => LET section == IF runs[run_id].active_section = "min_criteria"
                          THEN "min_criteria_questions"
                          ELSE runs[run_id].active_section
               node == SURVEY_DEFINITION[section][The(runs[run_id].cursor)]
               code == Demanded(The(req'[t]).answer, node)
           IN  code # None => Fails(resp'[t], The(code))

\* C4: at every node of every section, in advance, in evaluate and in answer,
\* an absent or blank answer fails with MISSING_ANSWER, and at a
\* single_choice or scale node a non-blank answer that is not an option key
\* fails with INVALID_ANSWER.
C4_BlankAndInvalidFail == [][C4_Advance /\ C4_Evaluate /\ C4_Answer]_vars

Step(qid, text) == [question_id |-> qid, answer |-> Some(text)]

\* The abdominal history of the worked example.
C5_History ==
    <<Step("q1", <<"a">>), Step("q1a", IsoDate), Step("q2", <<"a">>),
      Step("q4", <<"a">>), Step("q5", <<"d">>), Step("q6", <<"a">>),
      Step("q7", <<"a">>), Step("q8", <<"a">>), Step("q9", <<"b">>),
      Step("q11", <<"a">>), Step("q12", <<"a">>), Step("q13", <<"a">>),
      Step("q14", <<"a">>), Step("q15", <<"a">>), Step("q16", <<"b">>),
      Step("q17", <<"b">>), Step("q18", <<"a">>), Step("q19", <<"b">>),
      Step("q20", <<"b">>)>>

\* The last step of the history answered an option whose next is absent.
EndsTheFlow(history) ==
    LET last == history[Len(history)]
        qmap == AbdominalQuestions
    IN  /\ last.question_id \in DOMAIN qmap
        /\ qmap[last.question_id].type # "free_text"
        /\ last.answer # None
        /\ Len(The(last.answer)) = 1
        /\ The(last.answer)[1] \in DOMAIN qmap[last.question_id].options
        /\ qmap[last.question_id].options[The(last.answer)[1]].next = None

\* C5: an evaluate call whose history follows abdominal_questions from q1
\* with valid answers up to an option whose next is absent returns done=true,
\* next=null and the summary of the answers recorded in that call; for the
\* history of the worked example the summary is exact, still in pain,
\* "Sharp?", pain scale 8, requires attention.
C5_EvaluateCompletes ==
    /\ (e_pc = "returned" /\ e_hist # <<>> /\ The(e_resp).kind = "ok") =>
          LET r == The(e_resp) IN
          /\ r.done = EndsTheFlow(e_hist)
          /\ r.done =>
                /\ r.next = None
                /\ r.summary # None
                /\ The(r.summary).started_at_value =
                      IF "q1a" \in DOMAIN e_answers THEN Some(e_answers["q1a"].value)
                      ELSE Some(e_answers["q1b"].value)
                /\ The(r.summary).still_pain = Some(e_answers["q2"].key = "a")
                /\ The(r.summary).pain_quality = Some(e_answers["q4"].label)
                /\ The(r.summary).pain_scale = e_answers["q5"].score
    /\ (e_pc = "returned" /\ e_hist = C5_History) =>
          /\ The(e_resp).kind = "ok"
          /\ The(e_resp).done
          /\ The(e_resp).next = None
          /\ The(e_resp).summary =
                Some([started_at_precision |-> Some("exact"),
                      started_at_value |-> Some(IsoDate),
                      still_pain |-> Some(TRUE),
                      pain_quality |-> Some("Sharp?"),
                      pain_scale |-> Some(8),
                      requires_attention |-> TRUE])

\* evaluate returned on the history of the worked example.
C5_Witness == e_pc = "returned" /\ e_hist = C5_History

\* The leading integer of the label of each key of the scale node q5.
ScaleOfKey(key) ==
    CASE key = "a" -> 2 [] key = "b" -> 4 [] key = "c" -> 6
      [] key = "d" -> 8 [] key = "e" -> 10

\* The summary agrees with the q5 answer among `answers`.
ScaleSummarised(summary, answers) ==
    IF "q5" \in DOMAIN answers /\ answers["q5"].type = "scale"
    THEN /\ summary.pain_scale = Some(ScaleOfKey(answers["q5"].key))
         /\ summary.requires_attention = (ScaleOfKey(answers["q5"].key) >= 8)
    ELSE /\ summary.pain_scale = None
         /\ summary.requires_attention = FALSE

\* C6: in every summary that evaluate or a completing answer produces,
\* pain_scale is the leading integer of the label chosen at q5 (2, 4, 6, 8,
\* 10 for the keys a to e) and requires_attention is true exactly when
\* pain_scale is present and at least 8.
C6_PainScaleAndAttention ==
    /\ (e_resp # None /\ The(e_resp).kind = "ok" /\ The(e_resp).summary # None) =>
          ScaleSummarised(The(The(e_resp).summary), e_answers)
    /\ \A run_id \in DOMAIN runs :
          runs[run_id].summary # None =>
              ScaleSummarised(The(runs[run_id].summary), runs[run_id].answers_by_id)
    /\ \A t \in Threads :
          (/\ resp[t] # None /\ The(resp[t]).kind = "ok"
           /\ The(req[t]).op = "answer" /\ The(resp[t]).done) =>
              LET run == runs[The(The(req[t]).run_id)] IN
              /\ The(resp[t]).summary = run.summary
              /\ run.summary # None
              /\ ScaleSummarised(The(run.summary), run.answers_by_id)

\* A completing answer summarised a run whose q5 answer is "a": 2, no attention.
C6_Witness ==
    \E t \in Threads :
        /\ resp[t] # None /\ The(resp[t]).kind = "ok"
        /\ The(req[t]).op = "answer" /\ The(resp[t]).done
        /\ runs[The(The(req[t]).run_id)].answers_by_id["q5"].key = "a"
        /\ The(The(resp[t]).summary).pain_scale = Some(2)
        /\ The(The(resp[t]).summary).requires_attention = FALSE

\* C7: in evaluate the first step whose question_id differs from the cursor
\* the earlier steps reached fails the call with FLOW_DIVERGENCE naming the
\* expected cursor; the step records no answer, no later step is consumed,
\* and neither a summary nor a next node is returned.
C7_FlowDivergence ==
    [][/\ (/\ e_pc \in {"call", "loop"}
           /\ Len(e_hist') = Len(e_hist) + 1
           /\ e_hist'[Len(e_hist')].question_id # e_cursor)
          => /\ e_resp' = Some(HttpError(400, "FLOW_DIVERGENCE",
                                         <<e_cursor, e_hist'[Len(e_hist')].question_id>>))
             /\ e_answers' = e_answers
             /\ e_cursor' = e_cursor
             /\ e_pc' = "returned"
       /\ e_pc = "returned" => UNCHANGED <<e_hist, e_answers, e_cursor, e_resp, e_pc>>]_vars

\* evaluate failed with FLOW_DIVERGENCE after it had recorded answers.
C7_Witness ==
    /\ e_pc = "returned"
    /\ Fails(e_resp, "FLOW_DIVERGENCE")
    /\ Len(e_hist) > 2
    /\ DOMAIN e_answers = {e_hist[i].question_id : i \in 1..(Len(e_hist) - 1)}

AlreadyExists == Raise("ValueError", "already exists")

\* Thread t made, or is making, the call create_run for `run_id`.
Creates(t, run_id) ==
    req[t] # None /\ The(req[t]).op = "create_run" /\ The(req[t]).run_id = Some(run_id)

\* No two threads have both succeeded in creating the same run id.
C8_OneWinner ==
    \A t \in Threads, u \in Threads, run_id \in RunIds :
        ~(/\ t # u
          /\ Creates(t, run_id) /\ resp[t] = Some(Return(None))
          /\ Creates(u, run_id) /\ resp[u] = Some(Return(None)))

\* A create call fails only when the id is stored, and then it changes
\* nothing; a create call that stores finds the id absent, stores its own
\* record with the time stamps, and succeeds.
C8_Steps ==
    \A t \in Threads, run_id \in RunIds :
        /\ (Creates(t, run_id) /\ pc[t] = "create_check" /\ resp'[t] # None) =>
              /\ resp'[t] = Some(AlreadyExists)
              /\ run_id \in DOMAIN runs
              /\ runs' = runs
        /\ (Creates(t, run_id) /\ pc[t] = "create_store" /\ pc'[t] = "idle") =>
              /\ run_id \notin DOMAIN runs
              /\ resp'[t] = Some(Return(None))
              /\ DOMAIN runs' = DOMAIN runs \cup {run_id}
              /\ \A other \in DOMAIN runs : runs'[other] = runs[other]
              /\ runs'[run_id] = [The(held[t]).val EXCEPT
                                     !.created_at = Some(now), !.updated_at = Some(now)]

\* C8: when two threads call create with records of the same run id at the
\* same time, in every interleaving exactly one call succeeds and the other
\* fails with the already-exists fault, and the store then holds one entry
\* for the id, the record of the call that succeeded.
C8_ConcurrentCreate == []C8_OneWinner /\ [][C8_Steps]_vars

\* Thread 2 took the lock first and stored its record while thread 1 waited;
\* thread 1 then failed.
C8_Witness ==
    \E run_id \in RunIds :
        /\ Creates(1, run_id) /\ resp[1] = Some(AlreadyExists)
        /\ Creates(2, run_id) /\ resp[2] = Some(Return(None))
        /\ calls = 2
        /\ run_id \in DOMAIN runs

EventsOf(events, case_id) ==
    SelectSeq(events, LAMBDA event : event.case_id = case_id)

\* The call passes its checks and adds the case row: one new case, open,
\* with no initial awareness time, received at the supplied time or now.
C10_CaseAdded ==
    (c_pc = "idle" /\ c_pc' = "case_flushed") =>
        LET case == db_cases'[Len(db_cases')] IN
        /\ Len(db_cases') = Len(db_cases) + 1
        /\ SubSeq(db_cases', 1, Len(db_cases)) = db_cases
        /\ \A i \in DOMAIN db_cases : db_cases[i].id # case.id
        /\ case.status = "open"
        /\ case.initial_awareness_at = None
        /\ case.received_at = IF The(c_args').received_at # None
                              THEN The(The(c_args').received_at) ELSE now
        /\ EventsOf(db_events', case.id) = <<>>

\* The call returns: it returns the case it added, which has two events,
\* case.created then intake.received, the second not earlier than the first.
C10_CaseReturned ==
    (c_pc = "created_logged" /\ c_pc' = "idle" /\ The(c_resp').kind = "ok") =>
        LET case == The(c_resp').value
            logged == EventsOf(db_events', case.id)
        IN  /\ case = db_cases[Len(db_cases)]
            /\ db_cases' = db_cases
            /\ Len(logged) = 2
            /\ logged[1].event_type = "case.created"
            /\ logged[2].event_type = "intake.received"
            /\ logged[1].occurred_at <= logged[2].occurred_at
            /\ logged = SubSeq(db_events', Len(db_events') - 1, Len(db_events'))

\* C10: every successful create_case_from_intake adds one new case, open and
\* with no initial awareness time, received at the supplied receipt time or
\* else at the current time, and appends exactly two events for it, first
\* case.created and then intake.received, the second occurring no earlier
\* than the first.
C10_CaseFromIntake == [][C10_CaseAdded /\ C10_CaseReturned]_vars

\* A call without a receipt time returned a case received at time 0 whose
\* second event occurred later than its first.
C10_Witness ==
    /\ c_pc = "idle"
    /\ c_args # None /\ The(c_args).op = "create_case_from_intake"
    /\ The(c_args).received_at = None
    /\ c_resp # None /\ The(c_resp).kind = "ok"
    /\ The(c_resp).value.received_at = ClockStart
    /\ LET logged == EventsOf(db_events, The(c_resp).value.id) IN
       /\ Len(logged) = 2
       /\ logged[1].occurred_at < logged[2].occurred_at

\* The value, or a value nested in it, is of a type JSON has no form for.
RECURSIVE HoldsNonJson(_)
HoldsNonJson(value) ==
    \/ value.type \notin {"NoneType", "str", "int", "list", "dict"}
    \/ value.type = "list" /\ \E i \in DOMAIN value.elems : HoldsNonJson(value.elems[i])
    \/ value.type = "dict" /\ \E i \in DOMAIN value.items :
          HoldsNonJson(value.items[i][1]) \/ HoldsNonJson(value.items[i][2])

\* The payload append_event must refuse.
InvalidPayload(payload) ==
    \/ payload.type \notin {"NoneType", "dict"}
    \/ payload.type = "dict" /\ \E i \in DOMAIN payload.items : payload.items[i][1].type # "str"
    \/ HoldsNonJson(payload)

AppendEventCalled ==
    /\ c_pc = "idle"
    /\ c_args' # None /\ The(c_args').op = "append_event"
    /\ <<c_args, c_resp, db_events>>' # <<c_args, c_resp, db_events>>

\* C11: append_event with a payload that is not an object, that has a key
\* that is not a string, or that holds a value JSON cannot serialize, fails
\* with ValueError (the invalid-input fault) and adds no event row; with no
\* payload it adds a row whose payload is the empty object; with any other
\* payload it adds a row with that payload.
C11_AppendEventValidates ==
    [][AppendEventCalled =>
        LET payload == The(c_args').payload IN
        IF InvalidPayload(payload)
        THEN /\ The(c_resp').kind = "error" /\ The(c_resp').code = "ValueError"
             /\ db_events' = db_events
             /\ db_cases' = db_cases
        ELSE /\ The(c_resp').kind = "ok"
             /\ Len(db_events') = Len(db_events) + 1
             /\ SubSeq(db_events', 1, Len(db_events)) = db_events
             /\ db_events'[Len(db_events')].payload =
                    (IF payload = PyNone THEN PyDict(<<>>) ELSE payload)
             /\ The(c_resp').value = db_events'[Len(db_events')]]_vars

\* A payload with a datetime inside a list was refused after a row with an
\* empty payload had been added for an absent payload.
C11_Witness ==
    /\ c_args # None /\ The(c_args).op = "append_event"
    /\ The(c_args).payload = PyDict(<<<<PyStr("seen"), PyList(<<PyStr("x"), PyDatetime("d")>>)>>>>)
    /\ c_resp # None /\ The(c_resp).kind = "error" /\ The(c_resp).code = "ValueError"
    /\ \E i \in DOMAIN db_events :
          db_events[i].event_type = EventType_NOTE_ADDED /\ db_events[i].payload = PyDict(<<>>)

\* C12: resuming a completed run answers done=true, next=null and the summary
\* the store holds for the run, and changes no stored run; a resume repeated
\* after it finds the same store and so answers the same.
C12_ResumeCompleted ==
    [][\A t \in Threads, run_id \in RunIds :
          (/\ run_id \in DOMAIN runs
           /\ runs[run_id].status = "completed"
           /\ ResumeRun(t, run_id))
          => /\ runs' = runs
             /\ The(resp'[t]).kind = "ok"
             /\ The(resp'[t]).done = TRUE
             /\ The(resp'[t]).next = None
             /\ The(resp'[t]).summary = runs[run_id].summary
             /\ The(resp'[t]).summary # None
             /\ The(resp'[t]).run_id = Some(run_id)
             /\ (req[t] = req'[t] /\ resp[t] # None /\ The(resp[t]).kind = "ok"
                    /\ The(resp[t]).done
                 => resp'[t] = resp[t])]_vars

\* A resume of a completed run was answered with the stored summary.
C12_Witness ==
    \E t \in Threads :
        /\ req[t] # None /\ The(req[t]).op = "resume"
        /\ resp[t] # None /\ The(resp[t]).kind = "ok" /\ The(resp[t]).done = TRUE
        /\ The(The(req[t]).run_id) \in DOMAIN runs
        /\ runs[The(The(req[t]).run_id)].status = "completed"
        /\ The(resp[t]).summary = runs[The(The(req[t]).run_id)].summary
        /\ The(The(resp[t]).summary).pain_scale # None

\* A run in `section` at its final node q6 is given a non-blank answer: the
\* handler goes on to persist a run in ae_selector at q1, and once it has
\* persisted, the stored run is active in ae_selector at q1 and the response
\* renders that node with done=false.
GotoAeSelector(section) ==
    \A t \in Threads, run_id \in RunIds :
        /\ (/\ run_id \in DOMAIN runs
            /\ runs[run_id].status = "active"
            /\ runs[run_id].active_section = section
            /\ runs[run_id].cursor = Some("q6")
            /\ \E in \in AnswerRequests(run_id) :
                  /\ in[1] = "q6"
                  /\ ~AbsentOrBlank(in[2])
                  /\ AnswerLoad(t, run_id, in[1], in[2]))
           => /\ pc'[t] = "answer_replace"
              /\ The(held'[t]).val.active_section = "ae_selector"
              /\ The(held'[t]).val.cursor = Some("q1")
        /\ (/\ run_id \in DOMAIN runs
            /\ runs[run_id].active_section = section
            /\ runs[run_id].cursor = Some("q6")
            /\ held[t] # None /\ The(held[t]).val.run_id = Some(run_id)
            /\ AnswerPersist(t))
           => /\ runs'[run_id].active_section = "ae_selector"
              /\ runs'[run_id].cursor = Some("q1")
              /\ runs'[run_id].status = "active"
              /\ The(resp'[t]).kind = "ok"
              /\ The(resp'[t]).done = FALSE
              /\ The(resp'[t]).next = Some(RenderNode(AeSelector["q1"]))

GotoFromDefinedSection == [][GotoAeSelector("min_criteria_questions")]_vars

GotoFromDefinedSectionTaken ==
    \E t \in Threads :
        /\ req[t] # None /\ The(req[t]).op = "answer" /\ The(req[t]).question_id = "q6"
        /\ resp[t] # None /\ The(resp[t]).kind = "ok"
        /\ The(resp[t]).next = Some(RenderNode(AeSelector["q1"]))
        /\ runs[The(The(req[t]).run_id)].active_section = "ae_selector"

\* What a request can see of a run.
Progress(run) ==
    <<run.status, run.cursor, run.history, run.answers_by_id, run.summary>>

\* C14: the status of a stored run only moves from active to completed, and
\* once it is completed or cancelled no begin, resume or answer request, in
\* any interleaving, changes its status, cursor, history, answers_by_id or
\* summary again.
C14_TerminalStatus ==
    [][\A id \in DOMAIN runs :
          /\ id \in DOMAIN runs'
          /\ runs'[id].status # runs[id].status
                => runs[id].status = "active" /\ runs'[id].status = "completed"
          /\ runs[id].status \in {"completed", "cancelled"}
                => Progress(runs'[id]) = Progress(runs[id])]_vars

\* C15: an answer request for a run id the store does not hold fails with
\* UNKNOWN_RUN, and one for a stored run that is not active fails with
\* STATUS_INACTIVE whatever its question id and answer are; neither changes
\* the store.
C15_UnknownOrInactive ==
    [][\A t \in Threads, run_id \in RunIds :
          (\E in \in AnswerRequests(run_id) : AnswerLoad(t, run_id, in[1], in[2]))
          => /\ run_id \notin DOMAIN runs
                  => /\ Fails(resp'[t], "UNKNOWN_RUN")
                     /\ The(resp'[t]).status = 404
                     /\ runs' = runs
             /\ (run_id \in DOMAIN runs /\ runs[run_id].status # "active")
                  => /\ Fails(resp'[t], "STATUS_INACTIVE")
                     /\ The(resp'[t]).status = 409
                     /\ pc'[t] = "idle"
                     /\ runs' = runs]_vars

\* An answer to another question than the one of the cursor was refused on
\* a completed run because of its status.
C15_Witness ==
    \E t \in Threads :
        /\ req[t] # None /\ The(req[t]).op = "answer"
        /\ Fails(resp[t], "STATUS_INACTIVE")
        /\ The(req[t]).question_id = "zz"
        /\ runs[The(The(req[t]).run_id)].status = "completed"

\* An answer to a cancelled run of a section that is not defined was refused
\* because of its status.
C15_WitnessCancelled ==
    \E t \in Threads :
        /\ req[t] # None /\ The(req[t]).op = "answer"
        /\ Fails(resp[t], "STATUS_INACTIVE")
        /\ The(req[t]).answer = None
        /\ runs[The(The(req[t]).run_id)].status = "cancelled"

C15_WitnessUnknown ==
    \E t \in Threads :
        /\ req[t] # None /\ The(req[t]).op = "answer"
        /\ Fails(resp[t], "UNKNOWN_RUN")

\* An answer request for an active run of one of `sections` names another
\* question than the run's cursor: it fails with FLOW_DIVERGENCE and the
\* store is unchanged.
FlowDivergence(sections) ==
    \A t \in Threads, run_id \in RunIds :
        \A in \in AnswerRequests(run_id) :
            (/\ run_id \in DOMAIN runs
             /\ runs[run_id].status = "active"
             /\ runs[run_id].active_section \in sections
             /\ runs[run_id].cursor # Some(in[1])
             /\ AnswerLoad(t, run_id, in[1], in[2]))
            => /\ Fails(resp'[t], "FLOW_DIVERGENCE")
               /\ pc'[t] = "idle"
               /\ runs' = runs

FlowDivergenceInDefinedSections == [][FlowDivergence(DOMAIN SURVEY_DEFINITION)]_vars

FlowDivergenceAnswered ==
    \E t \in Threads :
        /\ req[t] # None /\ The(req[t]).op = "answer" /\ The(req[t]).answer = None
        /\ Fails(resp[t], "FLOW_DIVERGENCE")
        /\ runs[The(The(req[t]).run_id)].active_section = "abdominal_questions"

\* `longer` is `shorter` with entries appended.
Extends(longer, shorter) ==
    /\ Len(longer) >= Len(shorter)
    /\ SubSeq(longer, 1, Len(shorter)) = shorter

\* C17: the stored history of a run is append-only under every interleaving
\* of begin, resume and answer requests: each value the store holds for it
\* extends the value before, and replace_run for an accepted answer adds
\* exactly one entry, the question of the cursor with the answer given.
C17_HistoryAppendOnly ==
    [][\A id \in DOMAIN runs :
          /\ id \in DOMAIN runs'
          /\ Extends(runs'[id].history, runs[id].history)
          /\ \A t \in Threads :
                (/\ pc[t] = "answer_replace"
                 /\ The(held[t]).val.run_id = Some(id)
                 /\ AnswerPersist(t))
                => /\ Len(runs'[id].history) = Len(runs[id].history) + 1
                   /\ runs'[id].history[Len(runs'[id].history)] =
                         [question_id |-> The(runs[id].cursor),
                          answer |-> IF The(req[t]).answer = None THEN <<>>
                                     ELSE The(The(req[t]).answer)]]_vars

\* The questions a run has answered, each with its section: the history is
\* followed through SURVEY_DEFINITION from `section`, where the run started.
RECURSIVE Answered(_, _, _)
Answered(section, history, i) ==
    IF i > Len(history) THEN {}
    ELSE LET qid  == history[i].question_id
             node == SURVEY_DEFINITION[section][qid]
             next == IF node.type = "free_text" THEN node.next
                     ELSE node.options[Strip(history[i].answer)[1]].next
             then == IF next # None /\ IsGoto(The(next)) THEN The(next)[2] ELSE section
         IN  {<<section, qid>>} \cup Answered(then, history, i + 1)

\* The section in which the runs of defined sections start.
FirstSection == "min_criteria_questions"

\* C18: answers_by_id of a stored run holds one typed answer record for
\* every question the run has answered, the questions of different sections
\* that carry the same id included: as many records as questions answered,
\* one under the id of each.
C18_OneRecordPerQuestion ==
    \A id \in DOMAIN runs :
        runs[id].active_section \in DOMAIN SURVEY_DEFINITION =>
            LET answered == Answered(FirstSection, runs[id].history, 1) IN
            /\ \A q \in answered :
                  /\ q[2] \in DOMAIN runs[id].answers_by_id
                  /\ runs[id].answers_by_id[q[2]].type \in
                        {"free_text", "single_choice", "scale"}
            /\ Cardinality(DOMAIN runs[id].answers_by_id) = Cardinality(answered)

SummaryIffCompleted ==
    \A id \in DOMAIN runs : (runs[id].summary # None) <=> (runs[id].status = "completed")

CompletesFromAbdominal ==
    \A id \in DOMAIN runs' :
        (/\ runs'[id].status = "completed"
         /\ id \in DOMAIN runs => runs[id].status # "completed")
        => /\ id \in DOMAIN runs
           /\ runs[id].active_section = "abdominal_questions"
           /\ runs'[id].active_section = "abdominal_questions"

\* The answers that end the flow, a free-text node or an option of a choice
\* node without a next, are all in abdominal_questions.
EndsOnlyInAbdominal ==
    \A section \in DOMAIN SURVEY_DEFINITION :
        \A q \in DOMAIN SURVEY_DEFINITION[section] :
            LET node == SURVEY_DEFINITION[section][q] IN
            (\/ node.type = "free_text" /\ node.next = None
             \/ node.type # "free_text" /\ \E k \in DOMAIN node.options :
                                              node.options[k].next = None)
            => section = "abdominal_questions"

\* C19: in every reachable state of the store a run has a summary exactly
\* when its status is completed, and a run becomes completed only when its
\* active_section is abdominal_questions.
C19_SummaryOnCompletion ==
    /\ [](SummaryIffCompleted /\ EndsOnlyInAbdominal)
    /\ [][CompletesFromAbdominal]_vars

\* The store holds a completed run with its summary next to a run without.
C19_Witness ==
    /\ \E id \in DOMAIN runs :
          /\ runs[id].status = "completed"
          /\ runs[id].summary # None
          /\ The(runs[id].summary).pain_scale # None
          /\ runs[id].active_section = "abdominal_questions"
    /\ \E id \in DOMAIN runs : runs[id].status # "completed" /\ runs[id].summary = None

InvalidInputFault == Raise("ValueError", "run_id is required")

AlreadyExistsFault == Raise("ValueError", "already exists")

\* `stored` is `run` with created_at and updated_at set: the times of `run`
\* where it has them, else the time of the call.
StampedCopyOf(stored, run) ==
    /\ \A f \in DOMAIN run \ {"created_at", "updated_at"} : stored[f] = run[f]
    /\ DOMAIN stored = DOMAIN run
    /\ stored.created_at # None /\ stored.updated_at # None
    /\ run.created_at # None => stored.created_at = run.created_at
    /\ run.updated_at # None => stored.updated_at = run.updated_at
    /\ run.created_at = None => stored.created_at = Some(now)
    /\ run.updated_at = None => stored.updated_at = stored.created_at

\* C20: create fails with the invalid-input fault when the record has no
\* run id and with the already-exists fault, a different one, when the id is
\* stored, and in both cases leaves the stored map as it was; when it
\* succeeds the store holds under the id a copy of the record with
\* created_at and updated_at set, and the other runs are unchanged.
C20_CreateRun ==
    [][\A t \in Threads :
          /\ (\E run \in RecordsOf(t) : NoRunId(run) /\ CreateCall(t, run))
                => /\ resp'[t] = Some(InvalidInputFault)
                   /\ pc'[t] = "idle"
                   /\ runs' = runs
          /\ (pc[t] = "create_check" /\ CreateCheck(t)
                 /\ The(The(held[t]).val.run_id) \in DOMAIN runs)
                => /\ resp'[t] = Some(AlreadyExistsFault)
                   /\ AlreadyExistsFault # InvalidInputFault
                   /\ pc'[t] = "idle"
                   /\ runs' = runs
          /\ (pc[t] = "create_check" /\ CreateCheck(t)
                 /\ The(The(held[t]).val.run_id) \notin DOMAIN runs)
                => runs' = runs /\ pc'[t] = "create_store"
          /\ (pc[t] = "create_store" /\ CreateStore(t))
                => LET run == The(held[t]).val
                       id  == The(run.run_id)
                   IN  /\ id \notin DOMAIN runs
                       /\ DOMAIN runs' = DOMAIN runs \cup {id}
                       /\ \A other \in DOMAIN runs : runs'[other] = runs[other]
                       /\ StampedCopyOf(runs'[id], run)
                       /\ resp'[t] = Some(Return(None))]_vars

\* One create was refused for a stored id and the stored record, stamped
\* at its creation, is still there; another was refused for want of an id.
C20_Witness ==
    \E t \in Threads, u \in Threads :
        /\ resp[t] = Some(AlreadyExistsFault)
        /\ The(The(req[t]).run_id) \in DOMAIN runs
        /\ runs[The(The(req[t]).run_id)].created_at # None
        /\ resp[u] = Some(InvalidInputFault)

NotFoundFault == Raise("KeyError", "not found")

\* Thread `t` calls replace_run with `run` in this step.
Replaces(t, run) == pc[t] = "idle" /\ ReplaceRun(t, run)

\* C21: replace never adds a run id.  It fails with the invalid-input fault
\* when the record has no run id and with the not-found fault when the id is
\* not stored, and then leaves the stored map as it was; otherwise the
\* stored record of that id becomes a copy of the whole input record, every
\* field taken from the input and updated_at set to the time of the call,
\* and the record of no other run changes.
C21_ReplaceRun ==
    [][\A t \in Threads : \A run \in RecordsOf(t) :
          Replaces(t, run) =>
             /\ DOMAIN runs' = DOMAIN runs
             /\ NoRunId(run)
                   => resp'[t] = Some(InvalidInputFault) /\ runs' = runs
             /\ (~NoRunId(run) /\ The(run.run_id) \notin DOMAIN runs)
                   => resp'[t] = Some(NotFoundFault) /\ runs' = runs
             /\ (~NoRunId(run) /\ The(run.run_id) \in DOMAIN runs)
                   => LET id == The(run.run_id) IN
                      /\ \A f \in DOMAIN run \ {"updated_at"} : runs'[id][f] = run[f]
                      /\ DOMAIN runs'[id] = DOMAIN run
                      /\ runs'[id].updated_at = Some(now)
                      /\ \A other \in DOMAIN runs \ {id} : runs'[other] = runs[other]
                      /\ resp'[t] = Some(Return(Some(runs'[id])))]_vars

\* A replace put its record, stamped with the time of the call, in the place
\* of the stored one; another replace was refused because its id is not
\* stored.
C21_Witness ==
    \E t \in Threads, u \in Threads :
        /\ req[t] # None /\ The(req[t]).op = "replace_run"
        /\ resp[t] # None /\ The(resp[t]).kind = "ok"
        /\ The(The(resp[t]).value).history = <<>>
        /\ The(The(resp[t]).value).updated_at = Some(MaxClock)
        /\ runs[The(The(req[t]).run_id)] = The(The(resp[t]).value)
        /\ req[u] # None /\ The(req[u]).op = "replace_run"
        /\ resp[u] = Some(NotFoundFault)

\* Thread `t` calls update_run for `run_id` with `changes` in this step.
Updates(t, run_id, changes) == pc[t] = "idle" /\ UpdateRun(t, run_id, changes)

\* update_run refuses an id that is not stored and otherwise changes the
\* given fields and updated_at of that run alone.
UpdateMerges ==
    \A t \in Threads, run_id \in RunIds, changes \in StoreChanges :
        Updates(t, run_id, changes) =>
           IF run_id \notin DOMAIN runs
           THEN resp'[t] = Some(NotFoundFault) /\ runs' = runs
           ELSE /\ DOMAIN runs' = DOMAIN runs
                /\ \A other \in DOMAIN runs \ {run_id} : runs'[other] = runs[other]
                /\ \A f \in DOMAIN changes : runs'[run_id][f] = changes[f]
                /\ runs'[run_id].updated_at = Some(now)
                /\ \A f \in DOMAIN runs[run_id] \ (DOMAIN changes \cup {"updated_at"}) :
                      runs'[run_id][f] = runs[run_id][f]

\* The caller changes a list or map it passed to update_run as a field
\* value, and the stored run stays as it was.
UpdateIsolates ==
    \A t \in Threads, kind \in Parts \ {"summary"} :
        (/\ held[t] # None
         /\ The(held[t]).origin = "update_arg"
         /\ CallerMutates(t, kind)) => runs' = runs

\* C22: update fails with the not-found fault, changing nothing, when the
\* run id is not stored; otherwise it changes only the given fields and
\* updated_at of that run, and a list or map that was passed as a field
\* value can be mutated by the caller afterwards without changing the
\* stored run, and so what a later get returns.
C22_UpdateRun == [][UpdateMerges /\ UpdateIsolates]_vars

\* update_run's refusal and its merge, without the isolation of the values.
UpdateMergesOnly == [][UpdateMerges]_vars

\* update_run changed the status of a stored run and nothing else of it.
UpdateMerged ==
    \E t \in Threads :
        /\ req[t] # None /\ The(req[t]).op = "update_run"
        /\ resp[t] # None /\ The(resp[t]).kind = "ok"
        /\ The(The(resp[t]).value).status = "cancelled"
        /\ The(The(resp[t]).value).history = <<>>

\* Thread `t` calls get_run for `run_id` in this step.
Gets(t, run_id) == pc[t] = "idle" /\ GetRun(t, run_id)

\* C23: runs are never deleted.  No step of any operation takes a run id out
\* of the store, and get reports a run absent only when its id is not
\* stored: an id that get returned a record for is stored from then on and
\* is never reported absent afterwards.
C23_NeverDeleted ==
    [][/\ DOMAIN runs \subseteq DOMAIN runs'
       /\ \A t \in Threads, run_id \in RunIds :
             Gets(t, run_id) =>
                /\ run_id \in DOMAIN runs => resp'[t] = Some(Return(Some(runs[run_id])))
                /\ run_id \notin DOMAIN runs => resp'[t] = Some(Return(None))]_vars

\* Two runs are stored, the second created after the first, and a get of
\* the first returned its record.
C23_Witness ==
    \E t \in Threads :
        /\ DOMAIN runs = RunIds
        /\ req[t] # None /\ The(req[t]).op = "get_run"
        /\ resp[t] # None /\ The(resp[t]).kind = "ok"
        /\ The(resp[t]).value # None
        /\ \E u \in Threads : req[u] # None /\ The(req[u]).op = "create_run"

\* The set of run ids only grows.
RunIdsOnlyGrow == [][DOMAIN runs \subseteq DOMAIN runs']_vars

\* What answer_question does with `answer` for a run of `section` that
\* stands at the node `qid`.
AnswerAt(section, qid, answer) ==
    answer_question(NewRun(Some("r1"), section, Some(qid)), qid, answer)

\* The answer left the run in the section it was in, or completed it.
SameSectionNext(section, answered) ==
    answered.run.status = "completed" \/ answered.run.active_section = section

\* Advance answered `advanced`, answer_question did `answered`: both accept
\* and, where the next is of the same section, give the same next, or both
\* reject with the same error code.
SameValidation(section, advanced, answered) ==
    IF answered.ctl = "persist"
    THEN /\ advanced.kind = "ok"
         /\ SameSectionNext(section, answered) =>
               /\ advanced.done = AnswerResponse(answered.run).done
               /\ advanced.next = AnswerResponse(answered.run).next
    ELSE /\ advanced.kind = "error"
         /\ advanced.code = The(answered.resp).code

\* C24: answer and advance apply the same validation.  For every node of
\* the minimum-criteria section and every answer (absent, empty, blank, a
\* key, a padded key, an unknown key, free text, date-shaped text), advance
\* and the answer of a run that stands at that node both accept, with the
\* same next, or both reject with the same error code.
C24_SameValidation ==
    (n_req # None /\ The(n_req).question_id # None
       /\ The(The(n_req).question_id) \in DOMAIN MinCriteriaQuestions)
    => SameValidation(FirstSection, The(n_resp),
                      AnswerAt(FirstSection, The(The(n_req).question_id),
                               The(n_req).answer))

\* The same comparison with advance reading the section under the key the
\* definition has: the two differ exactly on a padded key at a choice or
\* scale node, which answer strips and advance does not, and on an answer
\* whose next goes to another section, which advance does not follow.
SameValidationInDefinedSection ==
    (n_req # None /\ The(n_req).question_id # None
       /\ The(The(n_req).question_id) \in DOMAIN MinCriteriaQuestions)
    => LET qid    == The(The(n_req).question_id)
           answer == The(n_req).answer
           node   == MinCriteriaQuestions[qid]
           padded == /\ answer # None
                     /\ node.type # "free_text"
                     /\ The(answer) # Strip(The(answer))
                     /\ IsKey(Strip(The(answer)), node.options)
           leaves == /\ AnswerAt(FirstSection, qid, answer).ctl = "persist"
                     /\ ~SameSectionNext(FirstSection, AnswerAt(FirstSection, qid, answer))
       IN  SameValidation(FirstSection, survey_next_in(FirstSection, Some(qid), answer),
                          AnswerAt(FirstSection, qid, answer)) <=> ~(padded \/ leaves)

\* Advance was called with a padded key at a choice node.
PaddedKeyAdvanced ==
    /\ n_req # None /\ The(n_req).question_id = Some("q1")
    /\ The(n_req).answer = Some(PaddedKey)

\* Thread `t` resumes `run_id` in this step.
Resumes(t, run_id) == pc[t] = "idle" /\ ResumeRun(t, run_id)

\* A resume of an id that is not stored fails with UNKNOWN_RUN, and no
\* resume changes a stored run.
ResumeReadsOnly ==
    \A t \in Threads, run_id \in RunIds :
        Resumes(t, run_id) =>
           /\ runs' = runs
           /\ run_id \notin DOMAIN runs => Fails(resp'[t], "UNKNOWN_RUN")

\* A resume of an active run answers done=false with the rendering of the
\* node at the stored cursor in the stored section.
ResumeRendersCursor ==
    \A t \in Threads, run_id \in RunIds :
        (/\ Resumes(t, run_id)
         /\ run_id \in DOMAIN runs
         /\ runs[run_id].status = "active"
         /\ runs[run_id].active_section \in DOMAIN SURVEY_DEFINITION
         /\ runs[run_id].cursor # None
         /\ The(runs[run_id].cursor) \in DOMAIN SURVEY_DEFINITION[runs[run_id].active_section])
        => LET run  == runs[run_id]
               node == SURVEY_DEFINITION[run.active_section][The(run.cursor)]
           IN  /\ The(resp'[t]).kind = "ok"
               /\ The(resp'[t]).done = FALSE
               /\ The(resp'[t]).next = Some(RenderNode(node))

\* C25: a resume of an unknown run id fails with UNKNOWN_RUN; a resume of
\* an active run answers done=false and the rendering of the node at the
\* stored cursor within the stored active_section, in every section a run
\* can be in; and no resume changes the stored run.
C25_Resume == [][ResumeReadsOnly /\ ResumeRendersCursor]_vars

\* The part of C25 on unknown ids and on the store.
ResumeNeverWrites == [][ResumeReadsOnly]_vars

\* An active run in a section of the definition was resumed.
ActiveRunResumed ==
    \E t \in Threads :
        /\ req[t] # None /\ The(req[t]).op = "resume"
        /\ resp[t] # None
        /\ The(The(req[t]).run_id) \in DOMAIN runs
        /\ runs[The(The(req[t]).run_id)].status = "active"
        /\ runs[The(The(req[t]).run_id)].active_section = "abdominal_questions"

\* What the claim demands of the advance response `advanced` to the request
\* `request`, the section being `qmap`.
AdvanceEntry(request, advanced, qmap) ==
    /\ request.question_id = None
          => advanced = show_question(qmap[START_ID]) /\ advanced.done = FALSE
    /\ (request.question_id # None /\ The(request.question_id) \notin DOMAIN qmap)
          => advanced.kind = "error" /\ advanced.code = "UNKNOWN_QUESTION"

\* C26: advance works on the minimum-criteria section.  Without a question
\* id it answers done=false with the rendering of that section's q1; with a
\* question id that is no node of the section it fails with
\* UNKNOWN_QUESTION, whatever the answer is.
C26_AdvanceEntry ==
    n_req # None => AdvanceEntry(The(n_req), The(n_resp), MinCriteriaQuestions)

\* The same for advance computed over the section under the key the
\* definition has.
AdvanceEntryInDefinedSection ==
    n_req # None =>
        AdvanceEntry(The(n_req),
                     survey_next_in(FirstSection, The(n_req).question_id, The(n_req).answer),
                     MinCriteriaQuestions)

\* Advance was called with a question id that is no node of the section
\* and with an answer.
UnknownQuestionAdvanced ==
    /\ n_req # None /\ The(n_req).question_id # None
    /\ The(The(n_req).question_id) \notin DOMAIN MinCriteriaQuestions
    /\ The(n_req).answer = Some(SomeText)

\* The requests that are in progress: handed a session and not yet through
\* the exit of get_db.
InProgress == {r \in Requests : r_pc[r] # "idle"}

\* C27: every session handed to a request is closed once the handler has
\* finished, whether it returned or raised, and each request gets a session
\* of its own, newly made.  No session is in use by two requests at once,
\* a session is open exactly while the request it was handed to is in
\* progress, and the session a request is handed was never handed out
\* before.
C27_SessionPerRequest ==
    /\ [](/\ \A r \in Requests, q \in Requests :
               (r # q /\ r_db[r] # None) => r_db[r] # r_db[q]
          /\ \A r \in Requests : r \in InProgress <=> r_db[r] # None
          /\ s_open = UNION {r_db[r] : r \in InProgress})
    /\ [][\A r \in Requests :
             /\ (r_pc[r] = "idle" /\ r_pc'[r] = "handler")
                   => /\ r_db'[r] # None
                      /\ The(r_db'[r]) \notin 1..s_made
                      /\ The(r_db'[r]) \in s_open'
             /\ (r_pc[r] \in {"returned", "raised"} /\ r_pc'[r] = "idle")
                   => r_db[r] # None /\ The(r_db[r]) \notin s_open']_vars

\* A request has ended and its session is closed, while another request is
\* in its handler with a session of its own, the only one open.
C27_Witness ==
    \E r \in Requests, q \in Requests :
        /\ r_pc[r] = "idle" /\ r_db[r] = None
        /\ s_made >= 2
        /\ r_pc[q] = "handler" /\ r_db[q] # None
        /\ s_open = r_db[q]

\* The rows of `db` hold, for every case, its case.created and its
\* intake.received event.
CasesWithBothEvents(db) ==
    \A i \in DOMAIN db.cases :
        LET logged == EventsOf(db.events, db.cases[i].id) IN
        /\ Len(logged) >= 2
        /\ logged[1].event_type = EventType_CASE_CREATED
        /\ logged[2].event_type = EventType_INTAKE_RECEIVED

ResolvesToAbsent(run, question_id, answer) ==
    /\ run.status = "active"
    /\ run.active_section \in DOMAIN SURVEY_DEFINITION
    /\ run.cursor = Some(question_id)
    /\ question_id \in DOMAIN SURVEY_DEFINITION[run.active_section]
    /\ answer # None
    /\ LET node == SURVEY_DEFINITION[run.active_section][question_id]
           text == Strip(The(answer))
       IN  IF node.type = "free_text"
           THEN /\ text # <<>>
                /\ node.id = "q1a" => DateShaped(text)
                /\ node.next = None
           ELSE /\ Len(text) = 1
                /\ text[1] \in DOMAIN node.options
                /\ node.options[text[1]].next = None

\* C29: when a valid answer resolves to an absent next, answer stores the
\* run with status completed and no cursor, the answer appended to its
\* history and recorded in answers_by_id under the question, and the summary
\* that _build_summary gives for the stored answers_by_id, and it returns
\* done=true, no next, and that same summary.
C29_AnswerCompletes ==
    [][\A t \in Threads :
        /\ \A run_id \in RunIds : \A in \in AnswerRequests(run_id) :
              (/\ pc[t] = "idle"
               /\ run_id \in DOMAIN runs
               /\ ResolvesToAbsent(runs[run_id], in[1], in[2])
               /\ AnswerLoad(t, run_id, in[1], in[2]))
              \* the answer is accepted and the handler goes on to store the run
              => pc'[t] = "answer_replace" /\ resp'[t] = None
        /\
          (/\ pc[t] = "answer_replace"
           /\ AnswerPersist(t)
           /\ ResolvesToAbsent(runs[The(The(req[t]).run_id)],
                               The(req[t]).question_id, The(req[t]).answer))
          => LET id     == The(The(req[t]).run_id)
                 qid    == The(req[t]).question_id
                 before == runs[id]
                 stored == runs'[id]
             IN  /\ stored.status = "completed"
                 /\ stored.cursor = None
                 /\ stored.history =
                       Append(before.history,
                              [question_id |-> qid, answer |-> The(The(req[t]).answer)])
                 /\ qid \in DOMAIN stored.answers_by_id
                 /\ stored.answers_by_id[qid].key = Strip(The(The(req[t]).answer))[1]
                 /\ \A q \in DOMAIN before.answers_by_id \ {qid} :
                       stored.answers_by_id[q] = before.answers_by_id[q]
                 /\ stored.summary = Some(_build_summary(stored.answers_by_id))
                 /\ The(resp'[t]).kind = "ok"
                 /\ The(resp'[t]).done = TRUE
                 /\ The(resp'[t]).next = None
                 /\ The(resp'[t]).summary = stored.summary]_vars

\* An answer completed a run: the response carries the summary the store
\* holds, with the pain scale of the answers.
C29_Witness ==
    \E t \in Threads :
        /\ req[t] # None /\ The(req[t]).op = "answer"
        /\ The(req[t]).question_id = "q20"
        /\ resp[t] # None /\ The(resp[t]).kind = "ok" /\ The(resp[t]).done
        /\ runs[The(The(req[t]).run_id)].status = "completed"
        /\ runs[The(The(req[t]).run_id)].cursor = None
        /\ The(resp[t]).summary = runs[The(The(req[t]).run_id)].summary
        /\ The(The(resp[t]).summary).pain_quality # None

\* Thread `t` is about to replace the run it loaded, and the stored run is
\* no longer the one it loaded: another request replaced it since.
Stale(t) ==
    LET run == The(held[t]).val
        id  == The(run.run_id)
    IN  runs[id].history # SubSeq(run.history, 1, Len(run.history) - 1)

\* C30: two concurrent answers to one run that both read the same stored
\* cursor are both accepted, neither is refused for acting on a stale
\* cursor.  The store changes by whole records only: loading and
\* validating changes no stored run, and a replace leaves exactly the
\* record of the request that made it, with the time of the replace, so a
\* stored record never mixes the fields of two requests; after the later
\* replace the history has the later request's entry after what that
\* request had loaded, and the entry and the answer of the earlier request
\* are gone.
C30_LastReplaceWins ==
    [][\A t \in Threads :
        /\ (pc[t] = "idle" /\ pc'[t] = "answer_replace") => runs' = runs
        /\ (pc[t] = "answer_replace" /\ AnswerPersist(t)) =>
              LET run == The(held[t]).val
                  id  == The(run.run_id)
              IN  /\ The(resp'[t]).kind = "ok"
                  /\ runs'[id] = [run EXCEPT !.updated_at = Some(now)]
                  /\ \A other \in DOMAIN runs \ {id} : runs'[other] = runs[other]
                  /\ Stale(t) =>
                        /\ Len(runs'[id].history) <= Len(runs[id].history)
                        /\ runs'[id].answers_by_id = run.answers_by_id]_vars

\* Two requests answered q20 of the same run, one with option a and one with
\* option b, and both were accepted; the stored history has one entry for
\* q20, that of the later replace, after the entry for q19.
C30_Witness ==
    \E t \in Threads, u \in Threads :
        /\ t # u
        /\ req[t] # None /\ req[u] # None
        /\ The(req[t]).op = "answer" /\ The(req[u]).op = "answer"
        /\ The(req[t]).run_id = The(req[u]).run_id
        /\ The(req[t]).question_id = "q20" /\ The(req[u]).question_id = "q20"
        /\ The(req[t]).answer = Some(<<"a">>) /\ The(req[u]).answer = Some(<<"b">>)
        /\ resp[t] # None /\ The(resp[t]).kind = "ok"
        /\ resp[u] # None /\ The(resp[u]).kind = "ok"
        /\ LET stored == runs[The(The(req[t]).run_id)] IN
           /\ Len(stored.history) = 2
           /\ stored.history[2] = [question_id |-> "q20", answer |-> <<"b">>]
           /\ stored.answers_by_id["q20"].key = "b"
           /\ stored.status = "completed"

\* What the claim says of the two operations on the final node q6 of the
\* minimum-criteria section, `advanced` being the advance response to a
\* non-blank `answer` and `answered` what answer_question did with it.
GotoNotFollowed(advanced, answered) ==
    /\ advanced.kind = "error" /\ advanced.code = "BROKEN_DEFINITION"
    /\ advanced.status = 500
    /\ answered.ctl = "persist"
    /\ answered.run.status = "active"
    /\ answered.run.active_section = "ae_selector"
    /\ answered.run.cursor = Some("q1")

\* Advance was asked about q6 with an answer that is not blank.
AdvancedAtQ6 ==
    /\ n_req # None /\ The(n_req).question_id = Some("q6")
    /\ ~AbsentOrBlank(The(n_req).answer)

\* C31: the stateless advance does not follow a GOTO next.  A valid answer
\* to q6 of the minimum-criteria section, whose next is GOTO:ae_selector:q1,
\* fails there with the internal fault BROKEN_DEFINITION, and the same
\* answer given to the stateful answer operation moves the run to q1 of
\* ae_selector.
C31_GotoNotFollowed ==
    AdvancedAtQ6 =>
        GotoNotFollowed(The(n_resp), AnswerAt(FirstSection, "q6", The(n_req).answer))

\* The same with advance computed over the section under the key the
\* definition has.
GotoNotFollowedInDefinedSection ==
    AdvancedAtQ6 =>
        GotoNotFollowed(survey_next_in(FirstSection, The(n_req).question_id, The(n_req).answer),
                        AnswerAt(FirstSection, "q6", The(n_req).answer))

\* The answer is one that the definition allows at `node`: an option key of
\* a choice or scale node, a text that is not blank for a free-text node,
\* and a date YYYY-MM-DD, possibly padded, for the exact-date node.
ValidAt(node, answer) ==
    IF node.type = "free_text"
    THEN /\ ~AbsentOrBlank(answer)
         /\ node.id = "q1a" => DateShaped(Strip(The(answer)))
    ELSE answer # None /\ OneOfTheKeys(answer, node)

\* The next token the definition gives for `answer` at `node`.
NextOf(node, answer) ==
    IF node.type = "free_text" THEN node.next
    ELSE node.options[The(answer)[1]].next

RECURSIVE Walked(_, _, _)
\* The steps of `history` from the i-th on walk abdominal_questions from
\* `cursor`: each step names the cursor, its answer is valid there and its
\* next is not absent.  The value is the cursor after the last step, or
\* None when the steps are no such walk.
Walked(history, i, cursor) ==
    IF i > Len(history) THEN Some(cursor)
    ELSE IF cursor \notin DOMAIN AbdominalQuestions THEN None
    ELSE LET step == history[i]
             node == AbdominalQuestions[cursor]
         IN  IF \/ step.question_id # cursor
                \/ ~ValidAt(node, step.answer)
                \/ NextOf(node, step.answer) = None
             THEN None
             ELSE Walked(history, i + 1, The(NextOf(node, step.answer))[1])

\* evaluate returned the rendering of the node `cursor`, not done and
\* without a summary.
RendersUnfinished(response, cursor) ==
    /\ cursor \in DOMAIN AbdominalQuestions
    /\ response = Some([kind |-> "ok", done |-> FALSE,
                        next |-> Some(RenderNode(AbdominalQuestions[cursor])),
                        summary |-> None])

\* C32: evaluate on a history that is a valid, unfinished walk of
\* abdominal_questions from q1, the empty history included, returns
\* done=false with the rendering of the node at the cursor reached after the
\* last step, and no summary.
C32_EvaluateUnfinished ==
    (e_pc = "returned" /\ Walked(e_hist, 1, START_ID) # None) =>
        RendersUnfinished(e_resp, The(Walked(e_hist, 1, START_ID)))

\* The same for the walks whose last step leads to a node of the section.
EvaluateUnfinishedAtNode ==
    (/\ e_pc = "returned"
     /\ Walked(e_hist, 1, START_ID) # None
     /\ The(Walked(e_hist, 1, START_ID)) \in DOMAIN AbdominalQuestions) =>
        RendersUnfinished(e_resp, The(Walked(e_hist, 1, START_ID)))

\* evaluate returned on a walk of several steps that ends at a node.
UnfinishedWalkEvaluated ==
    /\ e_pc = "returned"
    /\ Len(e_hist) > 2
    /\ Walked(e_hist, 1, START_ID) # None
    /\ The(Walked(e_hist, 1, START_ID)) \in DOMAIN AbdominalQuestions

\* Thread t answers q1 of ae_selector for run `run_id` with one of the
\* options whose target section holds no q1.
AnswersOtherBranch(t, run_id) ==
    /\ RunAt(run_id, "ae_selector", "q1")
    /\ \E k \in {"b", "c"} : AnswerLoad(t, run_id, "q1", Some(<<k>>))

\* answer_question accepts option "a" for `run` and leaves it active at q1
\* of abdominal_questions.
TakesAbdominalBranch(run) ==
    LET answered == answer_question(run, "q1", Some(<<"a">>)) IN
    /\ answered.ctl = "persist"
    /\ answered.run.status = "active"
    /\ answered.run.active_section = "abdominal_questions"
    /\ answered.run.cursor = Some("q1")

\* C33: answering q1 of ae_selector with option "b" (headache_questions) or
\* "c" (vomiting_questions) fails with the internal fault BROKEN_DEFINITION,
\* status 500, and stores nothing: the run stays active at q1 of
\* ae_selector with its history and answers_by_id as they were, and the
\* answer operation still accepts option "a" for it.
C33_OtherBranchesBroken ==
    [][\A t \in Threads, run_id \in RunIds :
          AnswersOtherBranch(t, run_id) =>
              /\ Fails(resp'[t], "BROKEN_DEFINITION")
              /\ The(resp'[t]).status = 500
              /\ pc'[t] = "idle"
              /\ runs' = runs
              /\ RunAt(run_id, "ae_selector", "q1")'
              /\ TakesAbdominalBranch(runs'[run_id])]_vars

\* A run with answers in its history was answered "b" or "c" at q1 of
\* ae_selector and is still there.
C33_Witness ==
    \E t \in Threads, run_id \in RunIds :
        /\ req[t] # None /\ The(req[t]).op = "answer"
        /\ The(req[t]).run_id = Some(run_id)
        /\ The(req[t]).answer \in {Some(<<"b">>), Some(<<"c">>)}
        /\ Fails(resp[t], "BROKEN_DEFINITION")
        /\ RunAt(run_id, "ae_selector", "q1")
        /\ runs[run_id].history # <<>>

\* What the claim says the answer-history read of `run_id` returns, `read`
\* being the response and `stored` the runs of the store.
FirstEntryOnly(read, stored, run_id) ==
    IF run_id \notin DOMAIN stored
    THEN read.kind = "error" /\ read.code = "UNKNOWN_RUN"
    ELSE Len(stored[run_id].history) >= 1 =>
            /\ read.kind = "body"
            /\ read.value # None
            /\ Len(The(read.value)) = 1
            /\ The(read.value)[1].question_id = stored[run_id].history[1].question_id

\* C34: the answer-history read of a run returns after its first loop
\* iteration.  For a run with at least one history entry it yields exactly
\* one stitched record, that of the earliest entry, and for an unknown run
\* id it fails with UNKNOWN_RUN.
C34_AnswerHistoryRead ==
    [][\A t \in Threads, run_id \in RunIds :
          ShowAnswerHistory(t, run_id) =>
              FirstEntryOnly(The(resp'[t]), runs, run_id)]_vars

\* The same of the list _build_answer_log assembles, which no handler calls.
AnswerLogFirstEntryOnly ==
    [][\A t \in Threads, run_id \in RunIds :
          ShowAnswerHistory(t, run_id) =>
              FirstEntryOnly(_build_answer_log(runs, run_id), runs, run_id)]_vars

\* The answer history of a run with several history entries was read.
AnswerHistoryRead ==
    \E t \in Threads :
        /\ req[t] # None /\ The(req[t]).op = "answers" /\ resp[t] # None
        /\ The(The(req[t]).run_id) \in DOMAIN runs
        /\ Len(runs[The(The(req[t]).run_id)].history) > 1

\* The section and the cursor of `run` name a node of the definition, which
\* is what _cursor_to_node looks up for resume and answer.
AtNode(run) ==
    /\ run.active_section \in DOMAIN SURVEY_DEFINITION
    /\ run.cursor # None
    /\ The(run.cursor) \in DOMAIN SURVEY_DEFINITION[run.active_section]
    /\ _cursor_to_node(run.cursor, run.active_section).raised = None

ActiveRunAtNodeFromDefinedSection ==
    \A id \in DOMAIN runs :
        (runs[id].status = "active" /\ runs[id].active_section # "min_criteria")
            => AtNode(runs[id])

\* A run is active at q20a of abdominal_questions, the node whose next
\* names no node, after an answer to it was refused.
StaysAtLastNode ==
    \E t \in Threads, id \in DOMAIN runs :
        /\ RunAt(id, "abdominal_questions", "q20a")
        /\ req[t] # None /\ The(req[t]).op = "answer" /\ The(req[t]).run_id = Some(id)
        /\ The(req[t]).answer = Some(SomeText)
        /\ Fails(resp[t], "BROKEN_DEFINITION")

\* C36: in every reachable state of the store a run's cursor is absent
\* exactly when its status is completed; an active run always has a cursor.
C36_CursorAbsentIffCompleted ==
    \A id \in DOMAIN runs :
        /\ (runs[id].cursor = None) <=> (runs[id].status = "completed")
        /\ runs[id].status = "active" => runs[id].cursor # None

\* The store holds a run that answers have completed, without a cursor,
\* next to a run that is not completed and has one.
C36_Witness ==
    \E id \in DOMAIN runs, other \in DOMAIN runs :
        /\ runs[id].status = "completed"
        /\ runs[id].cursor = None
        /\ Len(runs[id].history) > 1
        /\ runs[other].status # "completed"
        /\ runs[other].cursor # None

\* The error codes with which the answer handler refuses a request.
AnswerFaults ==
    {"UNKNOWN_RUN", "STATUS_INACTIVE", "FLOW_DIVERGENCE", "MISSING_ANSWER",
     "INVALID_ANSWER", "DATE_FORMAT", "UNSUPPORTED_TYPE", "BROKEN_DEFINITION"}

\* C37: every answer request that fails with UNKNOWN_RUN, STATUS_INACTIVE,
\* FLOW_DIVERGENCE, MISSING_ANSWER, INVALID_ANSWER, DATE_FORMAT,
\* UNSUPPORTED_TYPE or BROKEN_DEFINITION leaves the whole store unchanged:
\* what the handler wrote into its working copy before failing is not
\* persisted and the request ends without a store call to come, so that a
\* get or resume afterwards reads the cursor, active_section, history and
\* answers_by_id of before.
C37_FailedAnswerStoresNothing ==
    [][\A t \in Threads, run_id \in RunIds :
          (/\ \E in \in AnswerRequests(run_id) : AnswerLoad(t, run_id, in[1], in[2])
           /\ \E code \in AnswerFaults : Fails(resp'[t], code))
          => /\ runs' = runs
             /\ pc'[t] = "idle"
             /\ held'[t] = None]_vars

\* An answer to q20a of abdominal_questions was refused after the handler
\* had recorded it in its copy, and the stored run holds neither the answer
\* nor the history entry.
C37_Witness ==
    \E t \in Threads, id \in DOMAIN runs :
        /\ req[t] # None /\ The(req[t]).op = "answer" /\ The(req[t]).run_id = Some(id)
        /\ The(req[t]).question_id = "q20a"
        /\ \E code \in AnswerFaults : Fails(resp[t], code)
        /\ ~AbsentOrBlank(The(req[t]).answer)
        /\ "q20a" \notin DOMAIN runs[id].answers_by_id
        /\ runs[id].history[Len(runs[id].history)].question_id = "q20"
        /\ runs[id].cursor = Some("q20a")

\* The node and section a walk is at; the cursor is None where it has ended.
At(section, cursor) == [ok |-> TRUE, section |-> section, cursor |-> cursor]

Astray == [ok |-> FALSE, section |-> "", cursor |-> None]

RECURSIVE WalkEnd(_, _, _, _)
\* Where the entries of `history` from the i-th on lead from node `cursor`
\* of `section`: each entry names the node the walk is at, its answer (an
\* option key, possibly padded, at a choice node) has a next there, and the
\* walk goes on at that next, in the section of a GOTO token if it is one.
\* Astray when an entry does not fit.
WalkEnd(section, cursor, history, i) ==
    IF i > Len(history) THEN At(section, cursor)
    ELSE IF \/ cursor = None
            \/ section \notin DOMAIN SURVEY_DEFINITION
            \/ The(cursor) \notin DOMAIN SURVEY_DEFINITION[section]
            \/ history[i].question_id # The(cursor)
    THEN Astray
    ELSE LET node == SURVEY_DEFINITION[section][The(cursor)]
             key  == Strip(history[i].answer)
         IN  IF node.type # "free_text" /\ ~IsKey(key, node.options) THEN Astray
             ELSE LET next == IF node.type = "free_text" THEN node.next
                              ELSE node.options[key[1]].next
                  IN  IF next = None THEN WalkEnd(section, None, history, i + 1)
                      ELSE IF IsGoto(The(next))
                      THEN WalkEnd(The(next)[2], Some(The(next)[3]), history, i + 1)
                      ELSE WalkEnd(section, Some(The(next)[1]), history, i + 1)

\* The history of `run` is a walk from node `cursor` of `section`, and an
\* active run with answers stands where the walk ends.
WalksFrom(section, cursor, run) ==
    LET end == WalkEnd(section, cursor, run.history, 1) IN
    /\ end.ok
    /\ (run.status = "active" /\ run.history # <<>>) =>
          /\ run.cursor = end.cursor
          /\ run.active_section = end.section

HistoryIsWalkFromCreation ==
    \A id \in DOMAIN runs :
        \E seed \in SeedRuns \cup RaceSeeds :
            /\ seed.run_id = Some(id)
            /\ WalksFrom(seed.active_section, seed.cursor, runs[id])

EntriesOf(history, section, qid) ==
    {i \in DOMAIN history :
        /\ history[i].question_id = qid
        /\ WalkEnd(FirstSection, Some(START_ID), SubSeq(history, 1, i - 1), 1).section
              = section}

\* The summary is the one the answers that `history` gave in
\* abdominal_questions make: the date of q1a (exact) or q1b (approx), the
\* key of q2, the label of the q4 option and the number of the q5 option.
FromAbdominalAnswers(summary, history) ==
    LET given(qid) == EntriesOf(history, "abdominal_questions", qid)
        key(i)     == Strip(history[i].answer)[1]
    IN  /\ \/ /\ summary.started_at_precision = Some("exact")
              /\ \E i \in given("q1a") :
                    summary.started_at_value = Some(Strip(history[i].answer))
           \/ /\ summary.started_at_precision = Some("approx")
              /\ \E i \in given("q1b") :
                    summary.started_at_value = Some(Strip(history[i].answer))
        /\ \E i \in given("q2") : summary.still_pain = Some(key(i) = "a")
        /\ \E i \in given("q4") :
              summary.pain_quality = Some(AbdominalQuestions["q4"].options[key(i)].label)
        /\ \E i \in given("q5") : summary.pain_scale = Some(ScaleOfKey(key(i)))

\* C39: the stored summary of every completed run is taken from the answers
\* of the abdominal branch and is fully populated: started_at_precision is
\* "exact" or "approx" with a started_at_value, still_pain is true or false
\* as the key of abdominal q2 says, pain_quality is a label of abdominal q4
\* and pain_scale one of 2, 4, 6, 8, 10; what was answered before to q2, q4
\* and q5 of the minimum-criteria section is not in it.
C39_SummaryFromAbdominal ==
    \A id \in DOMAIN runs :
        runs[id].status = "completed" =>
            /\ runs[id].summary # None
            /\ FromAbdominalAnswers(The(runs[id].summary), runs[id].history)
            /\ The(runs[id].summary).started_at_value # None
            /\ The(runs[id].summary).still_pain \in {Some(TRUE), Some(FALSE)}
            /\ The(runs[id].summary).pain_quality \in
                  {Some(AbdominalQuestions["q4"].options[k].label) :
                      k \in DOMAIN AbdominalQuestions["q4"].options}
            /\ The(runs[id].summary).pain_scale \in {Some(2), Some(4), Some(6), Some(8), Some(10)}

\* A run is completed whose answer to q2 was "a" in the minimum-criteria
\* section and "b" in abdominal_questions, with still_pain false.
C39_Witness ==
    \E id \in DOMAIN runs :
        /\ runs[id].status = "completed"
        /\ \E i \in EntriesOf(runs[id].history, FirstSection, "q2") :
              runs[id].history[i].answer = <<"a">>
        /\ \E i \in EntriesOf(runs[id].history, "abdominal_questions", "q2") :
              runs[id].history[i].answer = <<"b">>
        /\ The(runs[id].summary).still_pain = Some(FALSE)
        /\ The(runs[id].summary).started_at_precision = Some("approx")

\* The answer operation accepts some answer at the cursor of `run`.
HasAcceptedAnswer(run) ==
    /\ run.cursor # None
    /\ \E answer \in {None} \cup {Some(a) : a \in AnswerInputs} :
          answer_question(run, The(run.cursor), answer).ctl = "persist"

\* C40: no active run is ever stuck.  In every reachable state the answer
\* operation accepts at least one answer at the cursor of every active run;
\* with that, a run that keeps receiving accepted answers, "a" at q1 of
\* ae_selector and "a" at q4_missing, goes on until it is completed.
C40_NeverStuck ==
    \A id \in DOMAIN runs : runs[id].status = "active" => HasAcceptedAnswer(runs[id])

\* The same for the runs that stand neither in the section begin writes nor
\* at q20a of abdominal_questions.
NeverStuckElsewhere ==
    \A id \in DOMAIN runs :
        (/\ runs[id].status = "active"
         /\ runs[id].active_section # "min_criteria"
         /\ ~(runs[id].active_section = "abdominal_questions"
              /\ runs[id].cursor = Some("q20a")))
        => HasAcceptedAnswer(runs[id])

\* A run that keeps receiving accepted answers comes to be completed, or to
\* a node where no answer is accepted.
CompletedOrStuck ==
    \A id \in RunIds :
        (id \in DOMAIN runs /\ runs[id].status = "active")
            ~> (/\ id \in DOMAIN runs
                /\ \/ runs[id].status = "completed"
                   \/ ~HasAcceptedAnswer(runs[id]))

\* A run that keeps receiving accepted answers comes to be completed.
EventuallyCompleted ==
    \A id \in RunIds :
        (id \in DOMAIN runs /\ runs[id].status = "active")
            ~> (id \in DOMAIN runs /\ runs[id].status = "completed")

\* No stored history answers a node twice: the nodes the walk of the history
\* passes are as many as its entries.  An accepted answer adds an entry, so
\* a run receives no more accepted answers than the definition has nodes.
NoNodeTwice ==
    \A id \in DOMAIN runs :
        runs[id].active_section \in DOMAIN SURVEY_DEFINITION =>
            Cardinality(Answered(FirstSection, runs[id].history, 1))
                = Len(runs[id].history)

\* A run stands at q20a of abdominal_questions after its answer "a" to q20
\* was accepted.
StuckAtLastNode ==
    \E t \in Threads, id \in DOMAIN runs :
        /\ RunAt(id, "abdominal_questions", "q20a")
        /\ req[t] # None /\ The(req[t]).op = "answer" /\ The(req[t]).run_id = Some(id)
        /\ The(req[t]).question_id = "q20"
        /\ resp[t] # None /\ The(resp[t]).kind = "ok"
        /\ ~HasAcceptedAnswer(runs[id])

=============================================================================
